---- MODULE Spec2Model ----
(***************************************************************************)
(* State-machine model of the YooBudget client: the RegisterScreen budget  *)
(* ratio sliders and sign-up handler, the Add-Income / Add-Expense modal   *)
(* form, the HomeScreen income list with its "Set as main" action, the     *)
(* view-cycle and expense fetches of HomeScreen and ExpensesScreen, the    *)
(* Budget Allocation rows, talking to the income and spending APIs, and    *)
(* the session kept by the auth service and the AuthProvider.              *)
(***************************************************************************)
EXTENDS Integers, Sequences, FiniteSets, Bags, TLC

VARIABLES
    \* RegisterScreen (src/app/register.tsx:19-441)
    needs, wants, savings,   \* useState(50) / useState(30) / useState(20)
    regLoading,              \* useState(false): loading
    regAlert,                \* the last alert handleRegister showed
    regPending,              \* the register(...) call being awaited, or NoCall
    regNavigated,            \* router.replace("/(tabs)/me") happened
    \* ModalScreen, the Add-Income / Add-Expense form (src/app/register.tsx:820-1530)
    modalType,               \* params.type: "income" or "expense"
    name, amount,            \* the two text inputs
    payCycle, nextPayDate, isMain,
    expenseType, nextPaymentDate,
    modalLoading,            \* useState(false): loading
    errorMessage,            \* the in-page error text
    modalAlert,              \* the alert being shown, or "none"
    modalPending,            \* the createIncome / createSpending call being awaited
    modalInFlight,           \* how many create calls of the form await their answer
    modalClosed,             \* router.back() happened
    today,                   \* the local calendar day, as a day number
    \* the income section of HomeScreen (src/app/(tabs)/index.tsx:452-800) and
    \* the income API behind it
    srvIncomes,              \* the user's incomes as the API holds them; _id = position
    homeFocused,             \* HomeScreen is the focused screen
    incomes,                 \* useState<Income[]>([])
    homeLoading,             \* useState(true): loading
    calls,                   \* bag of the income-service calls in flight, each with its handler
    \* the budget cycle and the cycle's expenses: HomeScreen
    \* (src/app/(tabs)/index.tsx:454-581), ExpensesScreen
    \* (src/app/(tabs)/expenses.tsx:10-95) and the API behind them
    srvExpenses,             \* the expenses of the current cycle as the API holds them
    cycleLoading,            \* HomeScreen useState(true)
    viewCycle,               \* HomeScreen useState<ViewCycleResponse | null>(null)
    expensesLoading,         \* HomeScreen useState(true)
    allExpenses,             \* HomeScreen useState<Spending[]>([])
    recurringExpenses,       \* HomeScreen useState<RecurringExpense[]>([])
    totalRecurringExpenses,  \* HomeScreen useState<number>(0)
    loading,                 \* ExpensesScreen useState(true)
    hasMainIncome,           \* ExpensesScreen useState(true)
    expenses,                \* ExpensesScreen useState<Spending[]>([])
    totalSpent,              \* ExpensesScreen useState<number>(0)
    totalCount,              \* ExpensesScreen useState<number>(0)
    expViewCycle,            \* ExpensesScreen useState<ViewCycleResponse | null>(null): viewCycle
    fetches,                 \* bag of the cycle and expense fetches in flight
    last,                    \* the fetch that settled last, and how
    newestCycle,             \* what the HomeScreen cycle fetch issued last left, where the
                             \* order of the fetches is recorded
    \* the Budget Allocation section of HomeScreen
    \* (src/app/(tabs)/index.tsx:598-662, 815-834)
    budgetRatio,             \* user.budgetRatio of the AuthContext
    section,                 \* the section as rendered last: the empty state or the rows
    \* the session: AsyncStorage as the auth service (src/unnamed/part_005) uses
    \* it, and the AuthProvider (src/unnamed/part_000:17-98)
    storedToken,             \* AsyncStorage item '@auth_token', or Absent
    storedUser,              \* AsyncStorage item '@user_data', or Absent
    user,                    \* AuthProvider useState<User | null>(null)
    isLoading,               \* AuthProvider useState(true)
    authCalls,               \* bag of the auth-service calls in flight, each at its await
    loggedOut                \* a logout completed and no login or register was accepted since,
                             \* nor was one storing its session when the logout completed

regVars == <<needs, wants, savings, regLoading, regAlert, regPending, regNavigated>>

modalVars == <<modalType, name, amount, payCycle, nextPayDate, isMain, expenseType,
               nextPaymentDate, modalLoading, errorMessage, modalAlert, modalPending,
               modalInFlight, modalClosed, today>>

homeVars == <<srvIncomes, homeFocused, incomes, homeLoading, calls>>

cycleVars == <<srvExpenses, cycleLoading, viewCycle, expensesLoading, allExpenses,
               recurringExpenses, totalRecurringExpenses, loading, hasMainIncome,
               expenses, totalSpent, totalCount, expViewCycle, fetches, last,
               newestCycle>>

allocVars == <<budgetRatio, section>>

authVars == <<storedToken, storedUser, user, isLoading, authCalls, loggedOut>>

vars == <<regVars, modalVars, homeVars, cycleVars, allocVars, authVars>>

NoCall == [kind |-> "none"]

(***************************************************************************)
(* IEEE-754 binary64 arithmetic, as far as the handlers use it.            *)
(* A non-negative double is [m |-> <<l1,..,l5>>, e |-> k]: its value is    *)
(* (l1*2^52 + l2*2^39 + l3*2^26 + l4*2^13 + l5) * 2^(-52-k); the           *)
(* significand is kept in 13-bit limbs so that every intermediate value    *)
(* stays inside the model checker's integers.                              *)
(***************************************************************************)
LimbBase == 2^13

DoubleZero == [m |-> <<0, 0, 0, 0, 0>>, e |-> 0]

RECURSIVE Scale(_, _)
\* the least k with b * 2^k >= t  (b > 0): the quotient b/t lies in [2^-k, 2^(1-k))
Scale(b, t) == IF b >= t THEN 0 ELSE 1 + Scale(2 * b, t)

RECURSIVE BitLen(_)
BitLen(n) == IF n = 0 THEN 0 ELSE 1 + BitLen(n \div 2)

\* the next four base-2^13 digits of r/t (r < t), followed by the remainder
FracLimbs(r, t) ==
    LET x1 == r * LimbBase
        x2 == (x1 % t) * LimbBase
        x3 == (x2 % t) * LimbBase
        x4 == (x3 % t) * LimbBase
    IN  <<x1 \div t, x2 \div t, x3 \div t, x4 \div t, x4 % t>>

\* l + c for a five-limb l, c added at the least significant limb, carries
\* propagated; the leading limb takes what is left
AddLimbs(l, c) ==
    LET v5 == l[5] + c
        v4 == l[4] + (v5 \div LimbBase)
        v3 == l[3] + (v4 \div LimbBase)
        v2 == l[2] + (v3 \div LimbBase)
        v1 == l[1] + (v2 \div LimbBase)
    IN  <<v1, v2 % LimbBase, v3 % LimbBase, v4 % LimbBase, v5 % LimbBase>>

\* n * l for a five-limb l, exactly
MulLimbs(n, l) ==
    LET v5 == n * l[5]
        v4 == n * l[4] + (v5 \div LimbBase)
        v3 == n * l[3] + (v4 \div LimbBase)
        v2 == n * l[2] + (v3 \div LimbBase)
        v1 == n * l[1] + (v2 \div LimbBase)
    IN  <<v1, v2 % LimbBase, v3 % LimbBase, v4 % LimbBase, v5 % LimbBase>>

\* b / t for integers 0 <= b <= t, t > 0: the quotient rounded to 53
\* significant bits, ties to even
DoubleDiv(b, t) ==
    IF b = 0 THEN DoubleZero
    ELSE LET k  == Scale(b, t)
             bp == b * 2^k
             f  == FracLimbs(bp % t, t)
             l  == <<bp \div t, f[1], f[2], f[3], f[4]>>
             r  == f[5]
             up == 2 * r > t \/ (2 * r = t /\ l[5] % 2 = 1)
         IN  [m |-> IF up THEN AddLimbs(l, 1) ELSE l, e |-> k]

\* n * d for an integer n >= 0 and a double d: the exact product rounded
\* to 53 significant bits, ties to even
DoubleMulInt(n, d) ==
    IF n = 0 \/ d.m[1] = 0 THEN DoubleZero
    ELSE LET p    == MulLimbs(n, d.m)
             s    == BitLen(p[1]) - 1
             low  == p[5] % 2^s
             half == 2^s \div 2
             odd  == (p[5] \div 2^s) % 2 = 1
             up   == s > 0 /\ (low > half \/ (low = half /\ odd))
             t    == [p EXCEPT ![5] = p[5] - low]
         IN  [m |-> IF up THEN AddLimbs(t, 2^s) ELSE t, e |-> d.e]

\* Math.round(d): the nearest integer, a tie going up
MathRound(d) ==
    LET whole == d.m[1] \div 2^(d.e)
        half  == IF d.e = 0 THEN d.m[2] >= LimbBase \div 2
                 ELSE (d.m[1] % 2^(d.e)) >= 2^(d.e - 1)
    IN  whole + (IF half THEN 1 ELSE 0)

(***************************************************************************)
(* RegisterScreen: the three ratio sliders                                 *)
(***************************************************************************)
\* <Slider minimumValue={0} maximumValue={100} step={1}>
SliderMin == 0
SliderMax == 100
SliderValues == SliderMin..SliderMax

\* const newWants = Math.round(remaining * wantsRatio), wantsRatio = wants / currentOtherTotal
ProportionalShare(remaining, part, currentOtherTotal) ==
    MathRound(DoubleMulInt(remaining, DoubleDiv(part, currentOtherTotal)))

\* handleNeedsChange with newSavings rounded on its own instead of taken as
\* the rest of remaining
NeedsChangeResult_bothRounded(n, w, s, value) ==
    LET newNeeds          == value
        remaining         == 100 - newNeeds
        currentOtherTotal == w + s
    IN  IF currentOtherTotal > 0 /\ remaining >= 0
        THEN <<newNeeds, ProportionalShare(remaining, w, currentOtherTotal),
               ProportionalShare(remaining, s, currentOtherTotal)>>
        ELSE IF remaining >= 0
        THEN <<newNeeds, remaining \div 2, remaining - (remaining \div 2)>>
        ELSE <<n, w, s>>

\* handleNeedsChange with the odd point of an even split given to wants
NeedsChangeResult_extraToFirst(n, w, s, value) ==
    LET newNeeds          == value
        remaining         == 100 - newNeeds
        currentOtherTotal == w + s
    IN  IF currentOtherTotal > 0 /\ remaining >= 0
        THEN LET newWants   == ProportionalShare(remaining, w, currentOtherTotal)
                 newSavings == remaining - newWants
             IN  <<newNeeds, newWants, newSavings>>
        ELSE IF remaining >= 0
        THEN <<newNeeds, remaining - (remaining \div 2), remaining \div 2>>
        ELSE <<n, w, s>>

\* handleNeedsChange sharing out 100 instead of remaining
NeedsChangeResult_shareOfHundred(n, w, s, value) ==
    LET newNeeds          == value
        remaining         == 100 - newNeeds
        currentOtherTotal == w + s
    IN  IF currentOtherTotal > 0 /\ remaining >= 0
        THEN LET newWants   == ProportionalShare(100, w, currentOtherTotal)
                 newSavings == remaining - newWants
             IN  <<newNeeds, newWants, newSavings>>
        ELSE IF remaining >= 0
        THEN <<newNeeds, remaining \div 2, remaining - (remaining \div 2)>>
        ELSE <<n, w, s>>

\* handleNeedsChange with wantsRatio = wants / 100
NeedsChangeResult_ratioOfHundred(n, w, s, value) ==
    LET newNeeds          == value
        remaining         == 100 - newNeeds
        currentOtherTotal == w + s
    IN  IF currentOtherTotal > 0 /\ remaining >= 0
        THEN LET newWants   == ProportionalShare(remaining, w, 100)
                 newSavings == remaining - newWants
             IN  <<newNeeds, newWants, newSavings>>
        ELSE IF remaining >= 0
        THEN <<newNeeds, remaining \div 2, remaining - (remaining \div 2)>>
        ELSE <<n, w, s>>

\* handleNeedsChange with a plain else for the even split
NeedsChangeResult_splitsNegative(n, w, s, value) ==
    LET newNeeds          == value
        remaining         == 100 - newNeeds
        currentOtherTotal == w + s
    IN  IF currentOtherTotal > 0 /\ remaining >= 0
        THEN LET newWants   == ProportionalShare(remaining, w, currentOtherTotal)
                 newSavings == remaining - newWants
             IN  <<newNeeds, newWants, newSavings>>
        ELSE <<newNeeds, remaining \div 2, remaining - (remaining \div 2)>>

\* the triple handleNeedsChange(value) leaves in <<needs, wants, savings>>
NeedsChangeResult(n, w, s, value) ==
    LET newNeeds          == value
        remaining         == 100 - newNeeds
        currentOtherTotal == w + s
    IN  IF currentOtherTotal > 0 /\ remaining >= 0
        THEN LET newWants   == ProportionalShare(remaining, w, currentOtherTotal)
                 newSavings == remaining - newWants
             IN  <<newNeeds, newWants, newSavings>>
        ELSE IF remaining >= 0
        THEN <<newNeeds, remaining \div 2, remaining - (remaining \div 2)>>
        ELSE <<n, w, s>>

\* the triple handleWantsChange(value) leaves in <<needs, wants, savings>>
WantsChangeResult(n, w, s, value) ==
    LET newWants          == value
        remaining         == 100 - newWants
        currentOtherTotal == n + s
    IN  IF currentOtherTotal > 0 /\ remaining >= 0
        THEN LET newNeeds   == ProportionalShare(remaining, n, currentOtherTotal)
                 newSavings == remaining - newNeeds
             IN  <<newNeeds, newWants, newSavings>>
        ELSE IF remaining >= 0
        THEN <<remaining \div 2, newWants, remaining - (remaining \div 2)>>
        ELSE <<n, w, s>>

\* the triple handleSavingsChange(value) leaves in <<needs, wants, savings>>
SavingsChangeResult(n, w, s, value) ==
    LET newSavings        == value
        remaining         == 100 - newSavings
        currentOtherTotal == n + w
    IN  IF currentOtherTotal > 0 /\ remaining >= 0
        THEN LET newNeeds == ProportionalShare(remaining, n, currentOtherTotal)
                 newWants == remaining - newNeeds
             IN  <<newNeeds, newWants, newSavings>>
        ELSE IF remaining >= 0
        THEN <<remaining \div 2, remaining - (remaining \div 2), newSavings>>
        ELSE <<n, w, s>>

\* an alert (window.alert / Alert.alert) is modal: nothing else is touched
\* until it is dismissed; the screen is gone after a successful sign-up
ScreenOpen == regAlert = "none" /\ ~regNavigated

\* <Slider disabled={loading}>
SlidersEnabled == ScreenOpen /\ ~regLoading

SetRatio(t) ==
    /\ needs' = t[1]
    /\ wants' = t[2]
    /\ savings' = t[3]

handleNeedsChange(value) ==
    /\ SlidersEnabled
    /\ SetRatio(NeedsChangeResult(needs, wants, savings, value))
    /\ UNCHANGED <<regLoading, regAlert, regPending, regNavigated, modalVars, homeVars,
                   cycleVars, allocVars, authVars>>

handleWantsChange(value) ==
    /\ SlidersEnabled
    /\ SetRatio(WantsChangeResult(needs, wants, savings, value))
    /\ UNCHANGED <<regLoading, regAlert, regPending, regNavigated, modalVars, homeVars,
                   cycleVars, allocVars, authVars>>

handleSavingsChange(value) ==
    /\ SlidersEnabled
    /\ SetRatio(SavingsChangeResult(needs, wants, savings, value))
    /\ UNCHANGED <<regLoading, regAlert, regPending, regNavigated, modalVars, homeVars,
                   cycleVars, allocVars, authVars>>

(***************************************************************************)
(* RegisterScreen: Sign Up                                                 *)
(***************************************************************************)
\* <Pressable onPress={handleRegister} disabled={loading || needs + wants + savings !== 100}>
SignUpEnabled == ScreenOpen /\ ~(regLoading \/ needs + wants + savings # 100)

\* await register(email, password, name, {needs, wants, savings}, currentSavingsNum)
RegisterCall(n, w, s) ==
    [kind |-> "register", budgetRatio |-> [needs |-> n, wants |-> w, savings |-> s]]

\* handleRegister passing wants where the savings percentage belongs
RegisterOutcome_wrongField(fieldsValid, n, w, s, savingsValid) ==
    IF ~fieldsValid THEN [alert |-> "fields", call |-> NoCall]
    ELSE IF n + w + s # 100 THEN [alert |-> "ratio", call |-> NoCall]
    ELSE IF ~savingsValid THEN [alert |-> "savings", call |-> NoCall]
    ELSE [alert |-> "none", call |-> RegisterCall(n, w, w)]

\* handleRegister up to its await: the alert it shows, or the call it makes.
\* fieldsValid: the name/email/password checks pass; savingsValid:
\* parseFloat(currentSavings) is a number >= 0
RegisterOutcome(fieldsValid, n, w, s, savingsValid) ==
    IF ~fieldsValid THEN [alert |-> "fields", call |-> NoCall]
    ELSE IF n + w + s # 100 THEN [alert |-> "ratio", call |-> NoCall]
    ELSE IF ~savingsValid THEN [alert |-> "savings", call |-> NoCall]
    ELSE [alert |-> "none", call |-> RegisterCall(n, w, s)]

handleRegister(fieldsValid, savingsValid) ==
    /\ SignUpEnabled
    /\ LET o == RegisterOutcome(fieldsValid, needs, wants, savings, savingsValid)
       IN  /\ regAlert' = o.alert
           /\ regPending' = o.call
           /\ regLoading' = (o.call # NoCall)
    /\ UNCHANGED <<needs, wants, savings, regNavigated, modalVars, homeVars,
                   cycleVars, allocVars, authVars>>

\* register resolved: router.replace("/(tabs)/me"); finally setLoading(false)
RegisterResolved ==
    /\ regPending # NoCall
    /\ regPending' = NoCall
    /\ regNavigated' = TRUE
    /\ regLoading' = FALSE
    /\ UNCHANGED <<needs, wants, savings, regAlert, modalVars, homeVars,
                   cycleVars, allocVars, authVars>>

\* register rejected: showAlert("Registration Failed", ...); finally setLoading(false)
RegisterRejected ==
    /\ regPending # NoCall
    /\ regPending' = NoCall
    /\ regAlert' = "failed"
    /\ regLoading' = FALSE
    /\ UNCHANGED <<needs, wants, savings, regNavigated, modalVars, homeVars,
                   cycleVars, allocVars, authVars>>

DismissRegAlert ==
    /\ regAlert # "none"
    /\ regAlert' = "none"
    /\ UNCHANGED <<needs, wants, savings, regLoading, regPending, regNavigated, modalVars,
                   homeVars, cycleVars, allocVars, authVars>>

RegNext ==
    \/ \E v \in SliderValues : handleNeedsChange(v)
    \/ \E v \in SliderValues : handleWantsChange(v)
    \/ \E v \in SliderValues : handleSavingsChange(v)
    \/ \E fieldsValid \in BOOLEAN, savingsValid \in BOOLEAN :
           handleRegister(fieldsValid, savingsValid)
    \/ RegisterResolved
    \/ RegisterRejected
    \/ DismissRegAlert

\* how far above the slider's maximum a handler is called
MaxOver == 2

\* the numbers the handlers are called with: the slider's, and numbers above
\* its maximum, which only a direct call passes
AdjustValues == SliderMin..(SliderMax + MaxOver)

\* the three handlers as functions of any number
AdjustNext ==
    \/ \E v \in AdjustValues : handleNeedsChange(v)
    \/ \E v \in AdjustValues : handleWantsChange(v)
    \/ \E v \in AdjustValues : handleSavingsChange(v)

(***************************************************************************)
(* ModalScreen: the Add-Income / Add-Expense form                          *)
(***************************************************************************)
\* calendar days the model runs over; the form is opened on FirstDay
MaxDay == 2
FirstDay == 1
Days == 0..MaxDay

\* PAY_CYCLE_OPTIONS
PayCycles == {"weekly", "biweekly", "monthly", "one-time"}

\* EXPENSE_TYPE_OPTIONS
ExpenseTypes == {"one-time", "recurring"}

\* texts typed into the name and amount inputs
NameTexts == {"", " ", "Job"}
AmountTexts == {"", "0", "-5", "abc", "10"}

\* String.prototype.trim on the texts above
Trim(text) == IF text = " " THEN "" ELSE text

\* a JavaScript number: NaN or an integer value
NaN == [nan |-> TRUE, v |-> 0]
Num(n) == [nan |-> FALSE, v |-> n]

\* parseFloat on the texts above
ParseFloat(text) ==
    CASE text = "0"  -> Num(0)
      [] text = "-5" -> Num(0 - 5)
      [] text = "10" -> Num(10)
      [] OTHER       -> NaN

\* x <= 0 on numbers: false for NaN
NotPositive(x) == ~x.nan /\ x.v <= 0

\* formatDate(date): the local YYYY-MM-DD of the date, i.e. its calendar day
formatDate(date) == [ymd |-> date]

\* the form state handleSubmit closes over
FormState ==
    [modalType |-> modalType, name |-> name, amount |-> amount, payCycle |-> payCycle,
     nextPayDate |-> nextPayDate, isMain |-> isMain, expenseType |-> expenseType,
     nextPaymentDate |-> nextPaymentDate]

\* createIncome data that passes the switch state through unchanged
CreateIncomeCall_passThrough(f) ==
    [kind |-> "createIncome",
     data |-> [name |-> Trim(f.name), amount |-> ParseFloat(f.amount),
               payCycle |-> f.payCycle, nextPayDate |-> formatDate(f.nextPayDate),
               isMain |-> f.isMain]]

\* IncomeService.createIncome(data)
CreateIncomeCall(f) ==
    [kind |-> "createIncome",
     data |-> [name |-> Trim(f.name), amount |-> ParseFloat(f.amount),
               payCycle |-> f.payCycle, nextPayDate |-> formatDate(f.nextPayDate),
               isMain |-> IF f.payCycle = "one-time" THEN FALSE ELSE f.isMain]]

\* SpendingService.createSpending(data); the date is sent for a recurring expense
CreateSpendingCall(f) ==
    [kind |-> "createSpending",
     data |-> [name |-> Trim(f.name), amount |-> ParseFloat(f.amount),
               expenseType |-> f.expenseType,
               nextPaymentDate |-> IF f.expenseType = "recurring"
                                   THEN formatDate(f.nextPaymentDate)
                                   ELSE [ymd |-> "none"]]]

\* handleSubmit without the one-time-cannot-be-main rejection
SubmitOutcome_noOneTimeRule(f, t) ==
    IF f.name = "" \/ Trim(f.name) = "" THEN [alert |-> "name", call |-> NoCall]
    ELSE IF f.amount = "" \/ NotPositive(ParseFloat(f.amount))
    THEN [alert |-> "amount", call |-> NoCall]
    ELSE IF f.modalType = "expense"
    THEN IF f.expenseType = "recurring" /\ f.nextPaymentDate < t
         THEN [alert |-> "pastPaymentDate", call |-> NoCall]
         ELSE [alert |-> "none", call |-> CreateSpendingCall(f)]
    ELSE IF f.payCycle # "one-time" /\ f.nextPayDate < t
    THEN [alert |-> "pastPayDate", call |-> NoCall]
    ELSE [alert |-> "none", call |-> CreateIncomeCall(f)]

\* handleSubmit without the income next-pay-date check
SubmitOutcome_noPayDateCheck(f, t) ==
    IF f.name = "" \/ Trim(f.name) = "" THEN [alert |-> "name", call |-> NoCall]
    ELSE IF f.amount = "" \/ NotPositive(ParseFloat(f.amount))
    THEN [alert |-> "amount", call |-> NoCall]
    ELSE IF f.modalType = "expense"
    THEN IF f.expenseType = "recurring" /\ f.nextPaymentDate < t
         THEN [alert |-> "pastPaymentDate", call |-> NoCall]
         ELSE [alert |-> "none", call |-> CreateSpendingCall(f)]
    ELSE IF f.payCycle = "one-time" /\ f.isMain
    THEN [alert |-> "oneTimeMain", call |-> NoCall]
    ELSE [alert |-> "none", call |-> CreateIncomeCall(f)]

\* handleSubmit up to its await, on form state f when the day is t: the alert
\* it shows, or the call it makes
SubmitOutcome(f, t) ==
    IF f.name = "" \/ Trim(f.name) = "" THEN [alert |-> "name", call |-> NoCall]
    ELSE IF f.amount = "" \/ NotPositive(ParseFloat(f.amount))
    THEN [alert |-> "amount", call |-> NoCall]
    ELSE IF f.modalType = "expense"
    THEN IF f.expenseType = "recurring" /\ f.nextPaymentDate < t
         THEN [alert |-> "pastPaymentDate", call |-> NoCall]
         ELSE [alert |-> "none", call |-> CreateSpendingCall(f)]
    ELSE IF f.payCycle # "one-time" /\ f.nextPayDate < t
    THEN [alert |-> "pastPayDate", call |-> NoCall]
    ELSE IF f.payCycle = "one-time" /\ f.isMain
    THEN [alert |-> "oneTimeMain", call |-> NoCall]
    ELSE [alert |-> "none", call |-> CreateIncomeCall(f)]

\* an alert is modal; the form is gone after router.back()
FormOpen == modalAlert = "none" /\ ~modalClosed

\* editable={!loading} / disabled={loading} on every input of the form
FormEditable == FormOpen /\ ~modalLoading

\* the submit button without loading in its disabled expression
SubmitEnabled_whileLoading ==
    /\ FormOpen
    /\ ~(\/ Trim(name) = ""
         \/ amount = ""
         \/ NotPositive(ParseFloat(amount)))

\* <Pressable onPress={handleSubmit} disabled={...}>
SubmitEnabled ==
    /\ FormOpen
    /\ ~(\/ modalLoading
         \/ Trim(name) = ""
         \/ amount = ""
         \/ NotPositive(ParseFloat(amount)))

\* the form is opened anew for an income or an expense: a fresh mount
openForm(type) ==
    /\ modalPending = NoCall
    /\ modalAlert = "none"
    /\ modalType' = type
    /\ name' = ""
    /\ amount' = ""
    /\ payCycle' = "monthly"
    /\ nextPayDate' = today
    /\ isMain' = FALSE
    /\ expenseType' = "one-time"
    /\ nextPaymentDate' = today
    /\ errorMessage' = ""
    /\ modalLoading' = FALSE
    /\ modalClosed' = FALSE
    /\ UNCHANGED <<modalAlert, modalPending, modalInFlight, today, regVars, homeVars,
                   cycleVars, allocVars, authVars>>

setName(text) ==
    /\ FormEditable
    /\ name' = text
    /\ errorMessage' = ""
    /\ UNCHANGED <<modalType, amount, payCycle, nextPayDate, isMain, expenseType,
                   nextPaymentDate, modalLoading, modalAlert, modalPending, modalInFlight,
                   modalClosed, today, regVars, homeVars, cycleVars, allocVars, authVars>>

setAmount(text) ==
    /\ FormEditable
    /\ amount' = text
    /\ errorMessage' = ""
    /\ UNCHANGED <<modalType, name, payCycle, nextPayDate, isMain, expenseType,
                   nextPaymentDate, modalLoading, modalAlert, modalPending, modalInFlight,
                   modalClosed, today, regVars, homeVars, cycleVars, allocVars, authVars>>

\* the pay cycle option without the setIsMain(false) for one-time
selectPayCycle_keepsIsMain(value) ==
    /\ FormEditable
    /\ modalType = "income"
    /\ payCycle' = value
    /\ isMain' = isMain
    /\ errorMessage' = ""
    /\ UNCHANGED <<modalType, name, amount, nextPayDate, expenseType, nextPaymentDate,
                   modalLoading, modalAlert, modalPending, modalInFlight, modalClosed,
                   today, regVars, homeVars, cycleVars, allocVars, authVars>>

\* pay cycle option onPress
selectPayCycle(value) ==
    /\ FormEditable
    /\ modalType = "income"
    /\ payCycle' = value
    /\ isMain' = IF value = "one-time" THEN FALSE ELSE isMain
    /\ errorMessage' = ""
    /\ UNCHANGED <<modalType, name, amount, nextPayDate, expenseType, nextPaymentDate,
                   modalLoading, modalAlert, modalPending, modalInFlight, modalClosed,
                   today, regVars, homeVars, cycleVars, allocVars, authVars>>

\* the main-income Switch, rendered only while payCycle is not one-time
toggleIsMain(value) ==
    /\ FormEditable
    /\ modalType = "income"
    /\ payCycle # "one-time"
    /\ isMain' = value
    /\ errorMessage' = ""
    /\ UNCHANGED <<modalType, name, amount, payCycle, nextPayDate, expenseType,
                   nextPaymentDate, modalLoading, modalAlert, modalPending, modalInFlight,
                   modalClosed, today, regVars, homeVars, cycleVars, allocVars, authVars>>

\* next pay date onChange
pickNextPayDate(date) ==
    /\ FormEditable
    /\ modalType = "income"
    /\ IF payCycle # "one-time" /\ ~(date >= today)
       THEN /\ errorMessage' = "pastPayDate"
            /\ UNCHANGED nextPayDate
       ELSE /\ nextPayDate' = date
            /\ errorMessage' = ""
    /\ UNCHANGED <<modalType, name, amount, payCycle, isMain, expenseType, nextPaymentDate,
                   modalLoading, modalAlert, modalPending, modalInFlight, modalClosed,
                   today, regVars, homeVars, cycleVars, allocVars, authVars>>

\* expense type option onPress
selectExpenseType(value) ==
    /\ FormEditable
    /\ modalType = "expense"
    /\ expenseType' = value
    /\ errorMessage' = ""
    /\ UNCHANGED <<modalType, name, amount, payCycle, nextPayDate, isMain, nextPaymentDate,
                   modalLoading, modalAlert, modalPending, modalInFlight, modalClosed,
                   today, regVars, homeVars, cycleVars, allocVars, authVars>>

\* next payment date onChange, rendered for a recurring expense
pickNextPaymentDate(date) ==
    /\ FormEditable
    /\ modalType = "expense"
    /\ expenseType = "recurring"
    /\ IF date >= today
       THEN /\ nextPaymentDate' = date
            /\ errorMessage' = ""
       ELSE /\ errorMessage' = "pastPaymentDate"
            /\ UNCHANGED nextPaymentDate
    /\ UNCHANGED <<modalType, name, amount, payCycle, nextPayDate, isMain, expenseType,
                   modalLoading, modalAlert, modalPending, modalInFlight, modalClosed,
                   today, regVars, homeVars, cycleVars, allocVars, authVars>>

\* handleSubmit up to its await; a validation failure after setLoading(true)
\* sets loading back to false before the handler returns
handleSubmit ==
    /\ SubmitEnabled
    /\ LET o == SubmitOutcome(FormState, today)
       IN  /\ modalAlert' = o.alert
           /\ modalPending' = o.call
           /\ modalInFlight' = modalInFlight + (IF o.call # NoCall THEN 1 ELSE 0)
           /\ modalLoading' = (o.call # NoCall)
           /\ errorMessage' = IF o.alert \in {"name", "amount", "pastPaymentDate"}
                              THEN errorMessage ELSE ""
    /\ UNCHANGED <<modalType, name, amount, payCycle, nextPayDate, isMain, expenseType,
                   nextPaymentDate, modalClosed, today, regVars, homeVars,
                   cycleVars, allocVars, authVars>>

\* the create call resolved: router.back(); finally setLoading(false)
CreateResolved ==
    /\ modalPending # NoCall
    /\ modalPending' = NoCall
    /\ modalInFlight' = modalInFlight - 1
    /\ modalClosed' = TRUE
    /\ modalLoading' = FALSE
    /\ UNCHANGED <<modalType, name, amount, payCycle, nextPayDate, isMain, expenseType,
                   nextPaymentDate, errorMessage, modalAlert, today, regVars, homeVars,
                   cycleVars, allocVars, authVars>>

\* the create call rejected, with setLoading(false) on the success path only
CreateRejected_staysLoading ==
    /\ modalPending # NoCall
    /\ modalPending' = NoCall
    /\ modalInFlight' = modalInFlight - 1
    /\ errorMessage' = "failed"
    /\ modalAlert' = "failed"
    /\ modalLoading' = modalLoading
    /\ UNCHANGED <<modalType, name, amount, payCycle, nextPayDate, isMain, expenseType,
                   nextPaymentDate, modalClosed, today, regVars, homeVars,
                   cycleVars, allocVars, authVars>>

\* the create call rejected: setErrorMessage, showAlert; finally setLoading(false)
CreateRejected ==
    /\ modalPending # NoCall
    /\ modalPending' = NoCall
    /\ modalInFlight' = modalInFlight - 1
    /\ errorMessage' = "failed"
    /\ modalAlert' = "failed"
    /\ modalLoading' = FALSE
    /\ UNCHANGED <<modalType, name, amount, payCycle, nextPayDate, isMain, expenseType,
                   nextPaymentDate, modalClosed, today, regVars, homeVars,
                   cycleVars, allocVars, authVars>>

DismissModalAlert ==
    /\ modalAlert # "none"
    /\ modalAlert' = "none"
    /\ UNCHANGED <<modalType, name, amount, payCycle, nextPayDate, isMain, expenseType,
                   nextPaymentDate, modalLoading, errorMessage, modalPending, modalInFlight,
                   modalClosed, today, regVars, homeVars, cycleVars, allocVars, authVars>>

\* midnight passes
Midnight ==
    /\ today < MaxDay
    /\ today' = today + 1
    /\ UNCHANGED <<modalType, name, amount, payCycle, nextPayDate, isMain, expenseType,
                   nextPaymentDate, modalLoading, errorMessage, modalAlert, modalPending,
                   modalInFlight, modalClosed, regVars, homeVars, cycleVars, allocVars,
                   authVars>>

ModalNext ==
    \/ \E type \in {"income", "expense"} : openForm(type)
    \/ \E text \in NameTexts : setName(text)
    \/ \E text \in AmountTexts : setAmount(text)
    \/ \E value \in PayCycles : selectPayCycle(value)
    \/ \E value \in BOOLEAN : toggleIsMain(value)
    \/ \E date \in Days : pickNextPayDate(date)
    \/ \E value \in ExpenseTypes : selectExpenseType(value)
    \/ \E date \in Days : pickNextPaymentDate(date)
    \/ handleSubmit
    \/ CreateResolved
    \/ CreateRejected
    \/ DismissModalAlert
    \/ Midnight

(***************************************************************************)
(* The income API, as the specification describes it                       *)
(***************************************************************************)
\* most incomes the API holds for the user
MaxIncomes == 2

\* most service calls in flight at once
MaxInFlight == 2

\* the _id of the main income, 0 when there is none
MainOf(list) ==
    IF \E i \in 1..Len(list) : list[i].isMain
    THEN CHOOSE i \in 1..Len(list) : list[i].isMain
    ELSE 0

\* GET /income: the list as held
ServerList(srv) == srv

\* POST /income/set-main/:id that promotes id without demoting the others
ServerSetMain_keepsPrevious(srv, id) ==
    IF id \in 1..Len(srv) /\ srv[id].payCycle # "one-time"
    THEN [status |-> "ok", srv |-> [srv EXCEPT ![id].isMain = TRUE]]
    ELSE [status |-> "error", srv |-> srv]

\* POST /income/set-main/:id: one step that demotes the previous main income
\* and promotes id; a one-time or unknown income is refused
ServerSetMain(srv, id) ==
    IF id \in 1..Len(srv) /\ srv[id].payCycle # "one-time"
    THEN [status |-> "ok",
          srv |-> [i \in 1..Len(srv) |-> [srv[i] EXCEPT !.isMain = (i = id)]]]
    ELSE [status |-> "error", srv |-> srv]

\* POST /income: a one-time main income is refused; a new main income takes
\* the flag from the previous one
ServerCreate(srv, data) ==
    IF data.payCycle = "one-time" /\ data.isMain
    THEN [status |-> "error", srv |-> srv]
    ELSE [status |-> "ok",
          srv |-> Append(IF data.isMain
                         THEN [i \in 1..Len(srv) |-> [srv[i] EXCEPT !.isMain = FALSE]]
                         ELSE srv,
                         [payCycle |-> data.payCycle, isMain |-> data.isMain])]

(***************************************************************************)
(* HomeScreen and the income service                                       *)
(***************************************************************************)
NoResp == [status |-> "none", list |-> <<>>, main |-> 0]
NoData == [payCycle |-> "none", isMain |-> FALSE]

\* a service call as issued: who awaits it, the function, its argument; then
\* the response once the API has answered.  clean is history: no other
\* request has changed the main income since this handler's set-main
Call(handler, fn, id, data) ==
    [handler |-> handler, fn |-> fn, id |-> id, data |-> data, stage |-> "sent",
     resp |-> NoResp, clean |-> TRUE]

Sent == {c \in BagToSet(calls) : c.stage = "sent"}
Answered == {c \in BagToSet(calls) : c.stage = "answered"}
Room(n) == BagCardinality(calls) + n <= MaxInFlight

\* setMainIncome that returns the body whatever the response status
setMainIncomeThrows_ignoresStatus(resp) == FALSE

\* IncomeService.setMainIncome: throws unless response.ok
setMainIncomeThrows(resp) == resp.status # "ok"

\* IncomeService.getAllIncomes: the array, or a throw
getAllIncomes(resp) ==
    IF resp.status = "ok" THEN [thrown |-> FALSE, list |-> resp.list]
    ELSE [thrown |-> TRUE, list |-> <<>>]

\* the Set-as-main button rendered for every income, one-time ones included
CanSetAsMain_anyCycle(income) == ~income.isMain

\* {!income.isMain && income.payCycle !== 'one-time' && (<Pressable ...>)}
CanSetAsMain(income) == ~income.isMain /\ income.payCycle # "one-time"

\* the income rows are rendered once loading is false
RowsShown == homeFocused /\ ~homeLoading

\* the effect of useFocusEffect on the income section: fetchIncomes() runs up
\* to its await.  fetchViewCycle() and fetchRecurringExpenses() are requests of
\* their own that write the cycle and the expenses, which no income row reads
FocusEffect(others) ==
    /\ homeLoading' = TRUE
    /\ calls' = others (+) SetToBag({Call("focus", "getAllIncomes", 0, NoData)})

\* HomeScreen gains focus: first mount, or return from another tab
ScreenFocused ==
    /\ ~homeFocused
    /\ Room(1)
    /\ homeFocused' = TRUE
    /\ FocusEffect(calls)
    /\ UNCHANGED <<srvIncomes, incomes, regVars, modalVars, cycleVars, allocVars, authVars>>

\* the user opens the Add-Income form or another tab
ScreenBlurred ==
    /\ homeFocused
    /\ homeFocused' = FALSE
    /\ UNCHANGED <<srvIncomes, incomes, homeLoading, calls, regVars, modalVars,
                   cycleVars, allocVars, authVars>>

\* Set-as-main onPress, up to its first await
PressSetAsMain(id) ==
    /\ RowsShown
    /\ id \in 1..Len(incomes)
    /\ CanSetAsMain(incomes[id])
    /\ Room(1)
    /\ calls' = calls (+) SetToBag({Call("press", "setMainIncome", id, NoData)})
    /\ UNCHANGED <<srvIncomes, homeFocused, incomes, homeLoading, regVars, modalVars,
                   cycleVars, allocVars, authVars>>

\* a filled-in Add-Income form with the given pay cycle and switch state
IncomeForm(cycle, main) ==
    [modalType |-> "income", name |-> "Job", amount |-> "10", payCycle |-> cycle,
     nextPayDate |-> today, isMain |-> main, expenseType |-> "one-time",
     nextPaymentDate |-> today]

\* pay cycles of the incomes created here
HomePayCycles == {"monthly", "one-time"}

\* handleSubmit of the Add-Income form, opened from HomeScreen, passing its
\* validation: createIncome(data) is awaited; one submit at a time (loading)
AddIncome(cycle, main) ==
    /\ ~homeFocused
    /\ \A c \in BagToSet(calls) : c.fn # "createIncome"
    /\ Len(srvIncomes) < MaxIncomes
    /\ Room(1)
    /\ LET o == SubmitOutcome(IncomeForm(cycle, main), today)
       IN  /\ o.call # NoCall
           /\ calls' = calls (+) SetToBag({Call("submit", "createIncome", 0,
                                                [payCycle |-> o.call.data.payCycle,
                                                 isMain |-> o.call.data.isMain])})
    /\ UNCHANGED <<srvIncomes, homeFocused, incomes, homeLoading, regVars, modalVars,
                   cycleVars, allocVars, authVars>>

\* the API answered call c with resp; the other calls in flight are rest
Answer(c, resp, rest) ==
    calls' = rest (+) SetToBag({[c EXCEPT !.stage = "answered", !.resp = resp]})

\* a set-main handler between its set-main response and its refetch sees
\* another request change the main income
Disturb(c) ==
    IF /\ c.handler = "press"
       /\ \/ c.fn = "setMainIncome" /\ c.stage = "answered"
          \/ c.fn = "getAllIncomes" /\ c.stage = "sent"
    THEN [c EXCEPT !.clean = FALSE]
    ELSE c

Others(c) == calls (-) SetToBag({c})

\* any request can fail: no token, no connection, a non-OK response
ApiFails(c) ==
    /\ c \in Sent
    /\ Answer(c, [NoResp EXCEPT !.status = "error"], Others(c))
    /\ UNCHANGED <<srvIncomes, homeFocused, incomes, homeLoading, regVars, modalVars,
                   cycleVars, allocVars, authVars>>

ApiSetMain(c) ==
    /\ c \in Sent
    /\ c.fn = "setMainIncome"
    /\ LET r == ServerSetMain(srvIncomes, c.id)
       IN  /\ srvIncomes' = r.srv
           /\ Answer(c, [NoResp EXCEPT !.status = r.status],
                     IF r.status = "ok"
                     THEN BagOfAll(Disturb, Others(c)) ELSE Others(c))
    /\ UNCHANGED <<homeFocused, incomes, homeLoading, regVars, modalVars,
                   cycleVars, allocVars, authVars>>

ApiCreate(c) ==
    /\ c \in Sent
    /\ c.fn = "createIncome"
    /\ LET r == ServerCreate(srvIncomes, c.data)
       IN  /\ srvIncomes' = r.srv
           /\ Answer(c, [NoResp EXCEPT !.status = r.status],
                     IF r.status = "ok" /\ c.data.isMain
                     THEN BagOfAll(Disturb, Others(c)) ELSE Others(c))
    /\ UNCHANGED <<homeFocused, incomes, homeLoading, regVars, modalVars,
                   cycleVars, allocVars, authVars>>

ApiList(c) ==
    /\ c \in Sent
    /\ c.fn = "getAllIncomes"
    /\ Answer(c, [NoResp EXCEPT !.status = "ok", !.list = ServerList(srvIncomes)],
              Others(c))
    /\ UNCHANGED <<srvIncomes, homeFocused, incomes, homeLoading, regVars, modalVars,
                   cycleVars, allocVars, authVars>>

\* the next call of the handler that awaited c
Continue(c, fn) ==
    calls' = Others(c) (+) SetToBag({[c EXCEPT !.fn = fn, !.stage = "sent",
                                               !.resp = NoResp]})

\* Set-as-main onPress after await setMainIncome: on a throw the catch logs;
\* otherwise fetchIncomes() runs up to its await
SetMainSettled(c) ==
    /\ c \in Answered
    /\ c.fn = "setMainIncome"
    /\ IF setMainIncomeThrows(c.resp)
       THEN /\ calls' = Others(c)
            /\ UNCHANGED homeLoading
       ELSE /\ homeLoading' = TRUE
            /\ Continue(c, "getAllIncomes")
    /\ UNCHANGED <<srvIncomes, homeFocused, incomes, regVars, modalVars,
                   cycleVars, allocVars, authVars>>

\* fetchIncomes after its await: setIncomes, finally setLoading(false).  In
\* the Set-as-main handler fetchViewCycle() follows, which writes the cycle
\* only (SetAsMainRefresh)
IncomesSettled(c) ==
    /\ c \in Answered
    /\ c.fn = "getAllIncomes"
    /\ LET r == getAllIncomes(c.resp)
       IN  incomes' = IF r.thrown THEN <<>> ELSE r.list
    /\ homeLoading' = FALSE
    /\ calls' = Others(c)
    /\ UNCHANGED <<srvIncomes, homeFocused, regVars, modalVars, cycleVars, allocVars,
                   authVars>>

\* handleSubmit after await createIncome: router.back() returns to HomeScreen,
\* whose focus effect runs; on a throw the form stays with its alert
CreateSettled(c) ==
    /\ c \in Answered
    /\ c.fn = "createIncome"
    /\ IF c.resp.status = "ok" /\ ~homeFocused
       THEN /\ homeFocused' = TRUE
            /\ FocusEffect(Others(c))
       ELSE /\ calls' = Others(c)
            /\ UNCHANGED <<homeFocused, homeLoading>>
    /\ UNCHANGED <<srvIncomes, incomes, regVars, modalVars, cycleVars, allocVars, authVars>>

HomeNext ==
    \/ ScreenFocused
    \/ ScreenBlurred
    \/ \E id \in 1..MaxIncomes : PressSetAsMain(id)
    \/ \E cycle \in HomePayCycles, main \in BOOLEAN : AddIncome(cycle, main)
    \/ \E c \in BagToSet(calls) : ApiFails(c)
    \/ \E c \in BagToSet(calls) : ApiSetMain(c)
    \/ \E c \in BagToSet(calls) : ApiCreate(c)
    \/ \E c \in BagToSet(calls) : ApiList(c)
    \/ \E c \in BagToSet(calls) : SetMainSettled(c)
    \/ \E c \in BagToSet(calls) : IncomesSettled(c)
    \/ \E c \in BagToSet(calls) : CreateSettled(c)

(***************************************************************************)
(* The cycle and expense API, as the specification describes it            *)
(***************************************************************************)
\* most expenses the API holds for the current cycle
MaxExpenses == 2

\* most cycle and expense fetches in flight at once
MaxFetches == 2

\* the expenses recorded in the cycle, in the order they are recorded
ExpenseFeed ==
    <<[amount |-> 5, spendFrom |-> "needs", expenseType |-> "recurring"],
      [amount |-> 7, spendFrom |-> "wants", expenseType |-> "one-time"],
      [amount |-> 3, spendFrom |-> "savings", expenseType |-> "recurring"]>>

\* the Budget Allocation section before HomeScreen's first render
NotRendered == [view |-> "none", rows |-> <<>>]

\* useState<ViewCycleResponse | null>(null)
Null == [null |-> TRUE, cycleStart |-> "", payCycle |-> "", totalIncome |-> 0,
         error |-> ""]

\* what fetch() and response.json() hand to a service function
Response(kind, error, cycle, list) ==
    [kind |-> kind, error |-> error, cycle |-> cycle, expenses |-> list]

\* GET /income/view-cycle: the cycle of the main income, or the
\* no-main-income error
ServerViewCycle(srv) ==
    IF MainOf(srv) = 0
    THEN Response("notOk", "NO_MAIN_INCOME", Null, <<>>)
    ELSE Response("ok", "",
                  [null |-> FALSE, cycleStart |-> "start",
                   payCycle |-> srv[MainOf(srv)].payCycle, totalIncome |-> 1000,
                   error |-> ""],
                  <<>>)

\* GET /expense/current-cycle: the expenses of the main income's cycle, or
\* the no-main-income error
ServerCurrentCycle(srv, list) ==
    IF MainOf(srv) = 0
    THEN Response("notOk", "NO_MAIN_INCOME", Null, <<>>)
    ELSE Response("ok", "",
                  [null |-> FALSE, cycleStart |-> "start", payCycle |-> "",
                   totalIncome |-> 0, error |-> ""],
                  list)

(***************************************************************************)
(* The cycle fetches of the income and spending services                   *)
(***************************************************************************)
\* how one call of a service function goes: the API answers it, getToken
\* yields nothing, fetch rejects, the body is not JSON, or the API answers
\* with an error of its own
Attempts == {"reached", "noToken", "network", "unreadable", "serverError"}

Attempt(kind, served) ==
    CASE kind = "reached" -> served
      [] kind = "serverError" -> Response("notOk", "Internal server error", Null, <<>>)
      [] OTHER -> Response(kind, "", Null, <<>>)

\* errorMessage.includes('NO_MAIN_INCOME') || errorMessage.includes('main income')
IncludesNoMainIncome(message) ==
    message \in {"NO_MAIN_INCOME", "Please set a main income first"}

\* the object returned for NO_MAIN_INCOME by getViewCycle
NoMainIncomeCycle ==
    [null |-> FALSE, cycleStart |-> "", payCycle |-> "monthly", totalIncome |-> 0,
     error |-> "NO_MAIN_INCOME"]

Returned(cycle, list) == [thrown |-> FALSE, message |-> "", cycle |-> cycle, expenses |-> list]
Thrown(message) == [thrown |-> TRUE, message |-> message, cycle |-> Null, expenses |-> <<>>]

\* a catch block that answers every error with the NO_MAIN_INCOME object
Rethrown_alwaysTagged(message, tagged) == Returned(tagged, <<>>)

\* the error a service function ends with, after its catch block
Rethrown(message, tagged) ==
    IF IncludesNoMainIncome(message) THEN Returned(tagged, <<>>) ELSE Thrown(message)

\* getViewCycle that throws on every non-OK response
getViewCycle_alwaysThrows(resp) ==
    CASE resp.kind = "ok" -> Returned(resp.cycle, <<>>)
      [] OTHER -> Thrown("Failed to get view cycle")

\* IncomeService.getViewCycle
getViewCycle(resp) ==
    CASE resp.kind = "noToken" -> Rethrown("No token available", NoMainIncomeCycle)
      [] resp.kind = "network" -> Rethrown("Network request failed", NoMainIncomeCycle)
      [] resp.kind = "unreadable" ->
             Rethrown("Failed to connect to server. Please check your connection.",
                      NoMainIncomeCycle)
      [] resp.kind = "notOk" ->
             LET message == IF resp.error # "" THEN resp.error
                                 ELSE "Failed to get view cycle"
             IN  IF IncludesNoMainIncome(message)
                 THEN Returned(NoMainIncomeCycle, <<>>)
                 ELSE Rethrown(message, NoMainIncomeCycle)
      [] OTHER -> Returned(resp.cycle, <<>>)

\* the object returned for NO_MAIN_INCOME by getCurrentCycleExpenses
NoMainIncomeExpenses ==
    [null |-> FALSE, cycleStart |-> "", payCycle |-> "", totalIncome |-> 0,
     error |-> "NO_MAIN_INCOME"]

\* SpendingService.getCurrentCycleExpenses
getCurrentCycleExpenses(resp) ==
    CASE resp.kind = "noToken" -> Rethrown("No token available", NoMainIncomeExpenses)
      [] resp.kind = "network" -> Rethrown("Network request failed", NoMainIncomeExpenses)
      [] resp.kind = "unreadable" ->
             Rethrown("Failed to connect to server. Please check your connection.",
                      NoMainIncomeExpenses)
      [] resp.kind = "notOk" ->
             LET message == IF resp.error # "" THEN resp.error
                                 ELSE "Failed to get current cycle expenses"
             IN  IF IncludesNoMainIncome(message)
                 THEN Returned(NoMainIncomeExpenses, <<>>)
                 ELSE Rethrown(message, NoMainIncomeExpenses)
      [] OTHER -> Returned(resp.cycle, resp.expenses)

(***************************************************************************)
(* HomeScreen and ExpensesScreen: the cycle and its expenses               *)
(***************************************************************************)
\* a fetch in flight: the screen awaiting it, the service function, and the
\* cycleData the awaiting code holds.  superseded is history: the screen has
\* called the same handler again since
Fetch(screen, fn, cycleStart) ==
    [screen |-> screen, fn |-> fn, cycleStart |-> cycleStart, superseded |-> FALSE]

\* the order of HomeScreen's cycle fetches is not recorded
NotRecorded == [recorded |-> FALSE, settled |-> FALSE, cycle |-> Null]

\* the order is recorded, and the cycle fetch issued last has not settled
Unsettled == [recorded |-> TRUE, settled |-> FALSE, cycle |-> Null]

\* fetchViewCycle() is called anew: its earlier calls in flight are older now
Supersede(c) ==
    IF newestCycle.recorded /\ c.screen = "home" /\ c.fn = "getViewCycle"
    THEN [c EXCEPT !.superseded = TRUE]
    ELSE c

Pending(screen, fn) == {c \in BagToSet(fetches) : c.screen = screen /\ c.fn = fn}

FetchRoom(n) == BagCardinality(fetches) + n <= MaxFetches

\* what a settled fetch leaves in last
Settled(c, kind, out) ==
    [screen |-> c.screen, fn |-> c.fn,
     attempt |-> IF kind = "reached" THEN "reached" ELSE "failed",
     thrown |-> out.thrown, error |-> out.cycle.error]

\* reduce((sum, expense) => sum + expense.amount, 0)
RECURSIVE SumAmount(_)
SumAmount(list) ==
    IF list = <<>> THEN 0 ELSE list[1].amount + SumAmount(Tail(list))

\* filter((expense) => expense.expenseType === 'recurring')
RECURSIVE FilterRecurring(_)
FilterRecurring(list) ==
    IF list = <<>> THEN <<>>
    ELSE IF list[1].expenseType = "recurring"
         THEN <<list[1]>> \o FilterRecurring(Tail(list))
         ELSE FilterRecurring(Tail(list))

\* HomeScreen: hasMainIncome: viewCycle !== null && !viewCycle.error
SummaryHasMainIncome == ~viewCycle.null /\ viewCycle.error = ""

\* HomeScreen useFocusEffect: fetchViewCycle() and fetchRecurringExpenses()
\* up to their first await (fetchIncomes() writes the income section only)
HomeFocusEffect ==
    /\ FetchRoom(2)
    /\ cycleLoading' = TRUE
    /\ expensesLoading' = TRUE
    /\ fetches' = BagOfAll(Supersede, fetches)
                       (+) SetToBag({Fetch("home", "getViewCycle", "")})
                       (+) SetToBag({Fetch("home", "getCurrentCycleExpenses", "")})
    /\ newestCycle' = IF newestCycle.recorded THEN Unsettled ELSE NotRecorded
    /\ UNCHANGED <<srvExpenses, viewCycle, allExpenses, recurringExpenses,
                   totalRecurringExpenses, loading, hasMainIncome, expenses, totalSpent,
                   totalCount, expViewCycle, last, regVars, modalVars, homeVars, allocVars,
                   authVars>>

\* ExpensesScreen useFocusEffect: fetchSpending() up to its first await
ExpensesFocusEffect ==
    /\ FetchRoom(1)
    /\ loading' = TRUE
    /\ fetches' = fetches (+) SetToBag({Fetch("expenses", "getCurrentCycleExpenses", "")})
    /\ UNCHANGED <<srvExpenses, cycleLoading, viewCycle, expensesLoading, allExpenses,
                   recurringExpenses, totalRecurringExpenses, hasMainIncome, expenses,
                   totalSpent, totalCount, expViewCycle, last, newestCycle, regVars,
                   modalVars, homeVars, allocVars, authVars>>

\* HomeScreen.fetchViewCycle from the await on
fetchViewCycle(c, kind) ==
    LET out == getViewCycle(Attempt(kind, ServerViewCycle(srvIncomes)))
    IN  /\ c \in Pending("home", "getViewCycle")
        /\ viewCycle' = IF out.thrown \/ out.cycle.error # "" THEN Null ELSE out.cycle
        /\ cycleLoading' = FALSE
        /\ fetches' = fetches (-) SetToBag({c})
        /\ last' = Settled(c, kind, out)
        /\ newestCycle' = IF c.superseded \/ ~newestCycle.recorded THEN newestCycle
                          ELSE [recorded |-> TRUE, settled |-> TRUE, cycle |-> viewCycle']
        /\ UNCHANGED <<srvExpenses, expensesLoading, allExpenses, recurringExpenses,
                       totalRecurringExpenses, loading, hasMainIncome, expenses, totalSpent,
                       totalCount, expViewCycle, regVars, modalVars, homeVars, allocVars,
                       authVars>>

\* HomeScreen.fetchRecurringExpenses from the await on
fetchRecurringExpenses(c, kind) ==
    LET out == getCurrentCycleExpenses(
                   Attempt(kind, ServerCurrentCycle(srvIncomes, srvExpenses)))
        kept == ~out.thrown /\ out.cycle.error = ""
        recurring == FilterRecurring(out.expenses)
    IN  /\ c \in Pending("home", "getCurrentCycleExpenses")
        /\ allExpenses' = IF kept THEN out.expenses ELSE <<>>
        /\ recurringExpenses' = IF kept THEN recurring ELSE <<>>
        /\ totalRecurringExpenses' = IF kept THEN SumAmount(recurring) ELSE 0
        /\ expensesLoading' = FALSE
        /\ fetches' = fetches (-) SetToBag({c})
        /\ last' = Settled(c, kind, out)
        /\ UNCHANGED <<srvExpenses, cycleLoading, viewCycle, loading, hasMainIncome,
                       expenses, totalSpent, totalCount, expViewCycle, newestCycle, regVars,
                       modalVars, homeVars, allocVars, authVars>>

\* fetchSpending whose error branch leaves hasMainIncome as it was
fetchSpending_forgetsHasMainIncome(c, kind) ==
    LET out == getCurrentCycleExpenses(
                   Attempt(kind, ServerCurrentCycle(srvIncomes, srvExpenses)))
        kept == ~out.thrown /\ out.cycle.error = ""
    IN  /\ c \in Pending("expenses", "getCurrentCycleExpenses")
        /\ hasMainIncome' = IF kept THEN TRUE ELSE hasMainIncome
        /\ expenses' = IF kept THEN out.expenses ELSE <<>>
        /\ totalSpent' = IF kept THEN SumAmount(out.expenses) ELSE 0
        /\ totalCount' = IF kept THEN Len(out.expenses) ELSE 0
        /\ expViewCycle' = IF kept THEN expViewCycle ELSE Null
        /\ loading' = IF kept THEN loading ELSE FALSE
        /\ fetches' = IF kept
                      THEN (fetches (-) SetToBag({c}))
                               (+) SetToBag({Fetch("expenses", "getViewCycle",
                                                   out.cycle.cycleStart)})
                      ELSE fetches (-) SetToBag({c})
        /\ last' = Settled(c, kind, out)
        /\ UNCHANGED <<srvExpenses, cycleLoading, viewCycle, expensesLoading, allExpenses,
                       recurringExpenses, totalRecurringExpenses, newestCycle, regVars,
                       modalVars, homeVars, allocVars, authVars>>

\* fetchSpending that keeps the old totals when the fetch fails
fetchSpending_keepsTotals(c, kind) ==
    LET out == getCurrentCycleExpenses(
                   Attempt(kind, ServerCurrentCycle(srvIncomes, srvExpenses)))
        kept == ~out.thrown /\ out.cycle.error = ""
    IN  /\ c \in Pending("expenses", "getCurrentCycleExpenses")
        /\ hasMainIncome' = IF out.thrown THEN hasMainIncome ELSE kept
        /\ expenses' = IF kept THEN out.expenses ELSE <<>>
        /\ totalSpent' = IF kept THEN SumAmount(out.expenses) ELSE totalSpent
        /\ totalCount' = IF kept THEN Len(out.expenses) ELSE totalCount
        /\ expViewCycle' = IF kept THEN expViewCycle ELSE Null
        /\ loading' = IF kept THEN loading ELSE FALSE
        /\ fetches' = IF kept
                      THEN (fetches (-) SetToBag({c}))
                               (+) SetToBag({Fetch("expenses", "getViewCycle",
                                                   out.cycle.cycleStart)})
                      ELSE fetches (-) SetToBag({c})
        /\ last' = Settled(c, kind, out)
        /\ UNCHANGED <<srvExpenses, cycleLoading, viewCycle, expensesLoading, allExpenses,
                       recurringExpenses, totalRecurringExpenses, newestCycle, regVars,
                       modalVars, homeVars, allocVars, authVars>>

\* ExpensesScreen.fetchSpending from its first await to its second, or to
\* its end when getCurrentCycleExpenses threw or returned an error
fetchSpending(c, kind) ==
    LET out == getCurrentCycleExpenses(
                   Attempt(kind, ServerCurrentCycle(srvIncomes, srvExpenses)))
        kept == ~out.thrown /\ out.cycle.error = ""
    IN  /\ c \in Pending("expenses", "getCurrentCycleExpenses")
        /\ hasMainIncome' = IF out.thrown THEN hasMainIncome ELSE kept
        /\ expenses' = IF kept THEN out.expenses ELSE <<>>
        /\ totalSpent' = IF kept THEN SumAmount(out.expenses) ELSE 0
        /\ totalCount' = IF kept THEN Len(out.expenses) ELSE 0
        /\ expViewCycle' = IF kept THEN expViewCycle ELSE Null
        /\ loading' = IF kept THEN loading ELSE FALSE
        /\ fetches' = IF kept
                      THEN (fetches (-) SetToBag({c}))
                               (+) SetToBag({Fetch("expenses", "getViewCycle",
                                                   out.cycle.cycleStart)})
                      ELSE fetches (-) SetToBag({c})
        /\ last' = Settled(c, kind, out)
        /\ UNCHANGED <<srvExpenses, cycleLoading, viewCycle, expensesLoading, allExpenses,
                       recurringExpenses, totalRecurringExpenses, newestCycle, regVars,
                       modalVars, homeVars, allocVars, authVars>>

\* ExpensesScreen.fetchSpending from its second await to its end
fetchSpendingCycle(c, kind) ==
    LET out == getViewCycle(Attempt(kind, ServerViewCycle(srvIncomes)))
        known == ~out.thrown /\ out.cycle.error = "" /\ out.cycle.payCycle # ""
    IN  /\ c \in Pending("expenses", "getViewCycle")
        /\ expViewCycle' =
               [null |-> FALSE, cycleStart |-> c.cycleStart,
                payCycle |-> IF known THEN out.cycle.payCycle ELSE "monthly",
                totalIncome |-> IF known THEN out.cycle.totalIncome ELSE 0,
                error |-> ""]
        /\ loading' = FALSE
        /\ fetches' = fetches (-) SetToBag({c})
        /\ last' = Settled(c, kind, out)
        /\ UNCHANGED <<srvExpenses, cycleLoading, viewCycle, expensesLoading, allExpenses,
                       recurringExpenses, totalRecurringExpenses, hasMainIncome, expenses,
                       totalSpent, totalCount, newestCycle, regVars, modalVars, homeVars,
                       allocVars, authVars>>

\* the Set-as-main button of an income row, as far as the cycle goes: once
\* setMainIncome has succeeded and fetchIncomes() has settled, fetchViewCycle()
\* runs up to its await (a setMainIncome that throws ends the handler)
SetAsMainRefresh(id) ==
    /\ id \in 1..Len(srvIncomes)
    /\ CanSetAsMain(srvIncomes[id])
    /\ FetchRoom(1)
    /\ srvIncomes' = ServerSetMain(srvIncomes, id).srv
    /\ cycleLoading' = TRUE
    /\ fetches' = BagOfAll(Supersede, fetches) (+) SetToBag({Fetch("home", "getViewCycle", "")})
    /\ newestCycle' = IF newestCycle.recorded THEN Unsettled ELSE NotRecorded
    /\ UNCHANGED <<homeFocused, incomes, homeLoading, calls, srvExpenses, viewCycle,
                   expensesLoading, allExpenses, recurringExpenses,
                   totalRecurringExpenses, loading, hasMainIncome, expenses, totalSpent,
                   totalCount, expViewCycle, last, regVars, modalVars, allocVars, authVars>>

\* an income is created on the account (POST /income handled)
IncomeCreated(main) ==
    /\ Len(srvIncomes) < MaxIncomes
    /\ srvIncomes' = ServerCreate(srvIncomes, [payCycle |-> "monthly", isMain |-> main]).srv
    /\ UNCHANGED <<homeFocused, incomes, homeLoading, calls, cycleVars, regVars, modalVars,
                   allocVars, authVars>>

\* an expense of the current cycle is created on the account
\* (POST /expense/add handled)
ExpenseCreated ==
    /\ Len(srvExpenses) < MaxExpenses
    /\ srvExpenses' = Append(srvExpenses,
                              ExpenseFeed[(Len(srvExpenses) % Len(ExpenseFeed)) + 1])
    /\ UNCHANGED <<cycleLoading, viewCycle, expensesLoading, allExpenses, recurringExpenses,
                   totalRecurringExpenses, loading, hasMainIncome, expenses, totalSpent,
                   totalCount, expViewCycle, fetches, last, newestCycle, regVars, modalVars,
                   homeVars, allocVars, authVars>>

CycleNext ==
    \/ HomeFocusEffect
    \/ ExpensesFocusEffect
    \/ \E c \in BagToSet(fetches), kind \in Attempts : fetchViewCycle(c, kind)
    \/ \E c \in BagToSet(fetches), kind \in Attempts : fetchRecurringExpenses(c, kind)
    \/ \E c \in BagToSet(fetches), kind \in Attempts : fetchSpending(c, kind)
    \/ \E c \in BagToSet(fetches), kind \in Attempts : fetchSpendingCycle(c, kind)
    \/ \E id \in 1..MaxIncomes : SetAsMainRefresh(id)
    \/ \E main \in BOOLEAN : IncomeCreated(main)
    \/ ExpenseCreated

(***************************************************************************)
(* HomeScreen: the Budget Allocation section                               *)
(***************************************************************************)
\* x / t for integers x >= t > 0: the quotient rounded to 53 significant
\* bits, ties to even
DoubleQuotient(x, t) ==
    LET q    == x \div t
        f    == FracLimbs(x % t, t)
        p    == <<q, f[1], f[2], f[3], f[4]>>
        s    == BitLen(q) - 1
        low  == p[5] % 2^s
        half == 2^s \div 2
        odd  == (p[5] \div 2^s) % 2 = 1
        up   == IF s = 0 THEN 2 * f[5] > t \/ (2 * f[5] = t /\ odd)
                ELSE low > half \/ (low = half /\ (f[5] > 0 \/ odd))
        tr   == [p EXCEPT ![5] = p[5] - low]
    IN  [m |-> IF up THEN AddLimbs(tr, 2^s) ELSE tr, e |-> 0]

\* x / t in binary64 for integers x >= 0, t > 0
Divide(x, t) == IF x < t THEN DoubleDiv(x, t) ELSE DoubleQuotient(x, t)

\* the total incomes, budget ratios and expenses the section is rendered for
TotalIncomes == {0, 1, 3, 10, 25, 80, 201}

RatioValues == {0, 15, 33, 50, 100}

BudgetRatios ==
    {[needs |-> p[1], wants |-> p[2], savings |-> 100 - p[1] - p[2]] :
        p \in {q \in RatioValues \X RatioValues : q[1] + q[2] <= 100}}

ExpenseKinds ==
    {[amount |-> 23, spendFrom |-> "needs", expenseType |-> "recurring"],
     [amount |-> 5, spendFrom |-> "needs", expenseType |-> "one-time"],
     [amount |-> 23, spendFrom |-> "wants", expenseType |-> "one-time"],
     [amount |-> 5, spendFrom |-> "savings", expenseType |-> "recurring"]}

RECURSIVE ExpenseLists(_)
ExpenseLists(n) ==
    IF n = 0 THEN {<<>>}
    ELSE ExpenseLists(n - 1)
             \cup {Append(l, e) : l \in {k \in ExpenseLists(n - 1) : Len(k) = n - 1},
                                  e \in ExpenseKinds}

\* summary.income: viewCycle?.totalIncome ?? 0
SummaryIncome == IF viewCycle.null THEN 0 ELSE viewCycle.totalIncome

\* spentByCategory fed with the recurring expenses only
RECURSIVE spentByCategory_recurringOnly(_)
spentByCategory_recurringOnly(list) ==
    IF list = <<>> THEN [needs |-> 0, wants |-> 0, savings |-> 0]
    ELSE LET spent    == spentByCategory_recurringOnly(SubSeq(list, 1, Len(list) - 1))
             expense  == list[Len(list)]
             category == expense.spendFrom
         IN  IF category \in {"needs", "wants", "savings"}
                    /\ expense.expenseType = "recurring"
             THEN [spent EXCEPT ![category] = @ + expense.amount]
             ELSE spent

\* spentByCategory: allExpenses.forEach adding expense.amount to
\* spent[expense.spendFrom]
RECURSIVE spentByCategory(_)
spentByCategory(list) ==
    IF list = <<>> THEN [needs |-> 0, wants |-> 0, savings |-> 0]
    ELSE LET spent    == spentByCategory(SubSeq(list, 1, Len(list) - 1))
             expense  == list[Len(list)]
             category == expense.spendFrom
         IN  IF category \in {"needs", "wants", "savings"}
             THEN [spent EXCEPT ![category] = @ + expense.amount]
             ELSE spent

\* a budget that drops the fraction
AllocationBudget_truncates(income, percentage) == (income * percentage) \div 100

\* a budget that rounds every fraction up
AllocationBudget_ceiling(income, percentage) == (income * percentage + 99) \div 100

\* Math.round((summary.income * user.budgetRatio.needs) / 100)
AllocationBudget(income, percentage) == MathRound(Divide(income * percentage, 100))

Allocation(title, percentage, spent) ==
    [name |-> title, percentage |-> percentage,
     budget |-> AllocationBudget(SummaryIncome, percentage), spent |-> spent]

\* displayAllocations; the allocations state stays [] (setAllocations is
\* never called)
displayAllocations ==
    IF SummaryIncome > 0
    THEN <<Allocation("Needs", budgetRatio.needs, spentByCategory(allExpenses).needs),
           Allocation("Wants", budgetRatio.wants, spentByCategory(allExpenses).wants),
           Allocation("Savings", budgetRatio.savings,
                      spentByCategory(allExpenses).savings)>>
    ELSE <<>>

\* Math.min(100, Math.round((allocation.spent / allocation.budget) * 100))
Progress(spent, budget) ==
    IF budget = 0 THEN 0
    ELSE LET percent == MathRound(DoubleMulInt(100, Divide(spent, budget)))
         IN  IF percent > 100 THEN 100 ELSE percent

\* a row whose remaining amount stops at 0
AllocationRow_clamped(allocation) ==
    [name |-> allocation.name, percentage |-> allocation.percentage,
     budget |-> allocation.budget, spent |-> allocation.spent,
     savings |-> IF allocation.budget > allocation.spent
                 THEN allocation.budget - allocation.spent ELSE 0,
     progress |-> Progress(allocation.spent, allocation.budget)]

\* displayAllocations.map((allocation) => ...): savings and progress
AllocationRow(allocation) ==
    [name |-> allocation.name, percentage |-> allocation.percentage,
     budget |-> allocation.budget, spent |-> allocation.spent,
     savings |-> allocation.budget - allocation.spent,
     progress |-> Progress(allocation.spent, allocation.budget)]

\* HomeScreen renders the Budget Allocation section: the empty state when
\* displayAllocations.length === 0, else one row per allocation
renderAllocations ==
    /\ section' =
           [view |-> IF Len(displayAllocations) = 0 THEN "emptyState" ELSE "rows",
            rows |-> [i \in 1..Len(displayAllocations) |->
                          AllocationRow(displayAllocations[i])]]
    /\ UNCHANGED <<budgetRatio, regVars, modalVars, homeVars, cycleVars, authVars>>

AllocNext == renderAllocations

(***************************************************************************)
(* The session: the auth service over AsyncStorage, and the AuthProvider   *)
(***************************************************************************)
\* null: getItem of a key that is not stored, and the AuthProvider's user
\* when nobody is signed in
Absent == "null"

\* result.token of a successful login or register
Token == "token"

\* the user documents the API may answer with
Users == {"Ann", "Bo"}

\* how many auth-service calls may be in flight together
MaxAuthCalls == 2

\* the functions a consumer of the AuthContext or of the service may call
AuthFunctions == {"login", "register", "updateUser", "getCurrentUser", "logout"}

\* a call suspended at the await named by stage, holding the user it was
\* answered with
AuthCall(fn, stage, data) == [fn |-> fn, stage |-> stage, data |-> data]

\* the first await of each function
FirstAwait(fn) ==
    CASE fn \in {"login", "register"} -> "fetch"
      [] fn \in {"updateUser", "getCurrentUser"} -> "getToken"
      [] fn = "logout" -> "multiRemove"

AuthAt(stage) == {c \in BagToSet(authCalls) : c.stage = stage}

\* the call c moves on to its next await
Await(c, stage, data) ==
    (authCalls (-) SetToBag({c})) (+) SetToBag({AuthCall(c.fn, stage, data)})

\* the call c returned or threw: it is in flight no more
Ended(c) == authCalls (-) SetToBag({c})

\* a login or register the API has accepted is storing its token and user
SigningIn ==
    \E c \in BagToSet(authCalls) :
        c.fn \in {"login", "register"} /\ c.stage \in {"setItemToken", "setItemUser"}

\* login, register, updateUserSettings or logout of the AuthProvider is
\* called, or getCurrentUser of the service: the call runs to its first await
AuthCalled(fn) ==
    /\ BagCardinality(authCalls) < MaxAuthCalls
    /\ authCalls' = authCalls (+) SetToBag({AuthCall(fn, FirstAwait(fn), Absent)})
    /\ UNCHANGED <<storedToken, storedUser, user, isLoading, loggedOut, regVars,
                   modalVars, homeVars, cycleVars, allocVars>>

\* checkAuth, run once by the provider's mount effect: getUser() answers
\* with the stored user; if (userData) setUser(userData); finally
\* setIsLoading(false)
checkAuth(c) ==
    /\ c \in AuthAt("getUser")
    /\ user' = IF storedUser # Absent THEN storedUser ELSE user
    /\ isLoading' = FALSE
    /\ authCalls' = Ended(c)
    /\ UNCHANGED <<storedToken, storedUser, loggedOut, regVars, modalVars, homeVars,
                   cycleVars, allocVars>>

\* getCurrentUser and updateUser: const token = await getToken();
\* if (!token) throw new Error('No token available'); else the request is
\* sent with the token read
getToken(c) ==
    /\ c \in AuthAt("getToken")
    /\ authCalls' = IF storedToken = Absent THEN Ended(c)
                    ELSE Await(c, "fetch", Absent)
    /\ UNCHANGED <<storedToken, storedUser, user, isLoading, loggedOut, regVars,
                   modalVars, homeVars, cycleVars, allocVars>>

\* the request of login, register, getCurrentUser or updateUser is
\* answered: not ok (no connection, unreadable body, !response.ok, or no
\* token or user in the body) throws; ok goes on to store what came back
fetchAnswered(c, ok, u) ==
    /\ c \in AuthAt("fetch")
    /\ authCalls' = IF ~ok THEN Ended(c)
                    ELSE IF c.fn \in {"login", "register"}
                         THEN Await(c, "setItemToken", u)
                         ELSE Await(c, "setItemUser", u)
    /\ loggedOut' = IF ok /\ c.fn \in {"login", "register"} THEN FALSE ELSE loggedOut
    /\ UNCHANGED <<storedToken, storedUser, user, isLoading, regVars, modalVars,
                   homeVars, cycleVars, allocVars>>

\* login and register: await AsyncStorage.setItem(TOKEN_KEY, token)
setItemToken(c, ok) ==
    /\ c \in AuthAt("setItemToken")
    /\ storedToken' = IF ok THEN Token ELSE storedToken
    /\ authCalls' = IF ok THEN Await(c, "setItemUser", c.data) ELSE Ended(c)
    /\ UNCHANGED <<storedUser, user, isLoading, loggedOut, regVars, modalVars, homeVars,
                   cycleVars, allocVars>>

\* await AsyncStorage.setItem(USER_KEY, JSON.stringify(user)) and the
\* return; the provider's login, register and updateUserSettings go on with
\* setUser(response.user) / setUser(updatedUser)
setItemUser(c, ok) ==
    /\ c \in AuthAt("setItemUser")
    /\ storedUser' = IF ok THEN c.data ELSE storedUser
    /\ user' = IF ok /\ c.fn \in {"login", "register", "updateUser"} THEN c.data
               ELSE user
    /\ authCalls' = Ended(c)
    /\ UNCHANGED <<storedToken, isLoading, loggedOut, regVars, modalVars, homeVars,
                   cycleVars, allocVars>>

\* logout: await AsyncStorage.multiRemove([TOKEN_KEY, USER_KEY]); the
\* provider goes on with setUser(null); a rejected multiRemove is rethrown
logout(c, ok) ==
    /\ c \in AuthAt("multiRemove")
    /\ storedToken' = IF ok THEN Absent ELSE storedToken
    /\ storedUser' = IF ok THEN Absent ELSE storedUser
    /\ user' = IF ok THEN Absent ELSE user
    /\ loggedOut' = IF ok THEN ~SigningIn ELSE loggedOut
    /\ authCalls' = Ended(c)
    /\ UNCHANGED <<isLoading, regVars, modalVars, homeVars, cycleVars, allocVars>>

AuthNext ==
    \/ \E fn \in AuthFunctions : AuthCalled(fn)
    \/ \E c \in BagToSet(authCalls) : checkAuth(c)
    \/ \E c \in BagToSet(authCalls) : getToken(c)
    \/ \E c \in BagToSet(authCalls), ok \in BOOLEAN, u \in Users : fetchAnswered(c, ok, u)
    \/ \E c \in BagToSet(authCalls), ok \in BOOLEAN : setItemToken(c, ok)
    \/ \E c \in BagToSet(authCalls), ok \in BOOLEAN : setItemUser(c, ok)
    \/ \E c \in BagToSet(authCalls), ok \in BOOLEAN : logout(c, ok)

\* the three screens as mounted: RegisterScreen and ModalScreen at their
\* useState defaults, HomeScreen before its first focus, no income yet
Init ==
    /\ needs = 50 /\ wants = 30 /\ savings = 20
    /\ regLoading = FALSE /\ regAlert = "none" /\ regPending = NoCall
    /\ regNavigated = FALSE
    /\ modalType = "income"
    /\ name = "" /\ amount = ""
    /\ payCycle = "monthly" /\ nextPayDate = FirstDay /\ isMain = FALSE
    /\ expenseType = "one-time" /\ nextPaymentDate = FirstDay
    /\ modalLoading = FALSE /\ errorMessage = "" /\ modalAlert = "none"
    /\ modalPending = NoCall /\ modalInFlight = 0 /\ modalClosed = FALSE
    /\ today = FirstDay
    /\ srvIncomes = <<>> /\ homeFocused = FALSE /\ incomes = <<>>
    /\ homeLoading = TRUE /\ calls = EmptyBag
    /\ srvExpenses = <<>>
    /\ cycleLoading = TRUE /\ viewCycle = Null /\ expensesLoading = TRUE
    /\ allExpenses = <<>> /\ recurringExpenses = <<>> /\ totalRecurringExpenses = 0
    /\ loading = TRUE /\ hasMainIncome = TRUE /\ expenses = <<>>
    /\ totalSpent = 0 /\ totalCount = 0 /\ expViewCycle = Null
    /\ fetches = EmptyBag
    /\ last = [screen |-> "none", fn |-> "none", attempt |-> "none", thrown |-> FALSE,
               error |-> ""]
    /\ newestCycle = NotRecorded
    /\ budgetRatio = [needs |-> 50, wants |-> 30, savings |-> 20] /\ section = NotRendered
    /\ storedToken = Absent /\ storedUser = Absent /\ user = Absent
    /\ isLoading = TRUE /\ authCalls = SetToBag({AuthCall("checkAuth", "getUser", Absent)})
    /\ loggedOut = FALSE

\* as Init, with the order of HomeScreen's cycle fetches recorded
OrderInit ==
    /\ needs = 50 /\ wants = 30 /\ savings = 20
    /\ regLoading = FALSE /\ regAlert = "none" /\ regPending = NoCall
    /\ regNavigated = FALSE
    /\ modalType = "income"
    /\ name = "" /\ amount = ""
    /\ payCycle = "monthly" /\ nextPayDate = FirstDay /\ isMain = FALSE
    /\ expenseType = "one-time" /\ nextPaymentDate = FirstDay
    /\ modalLoading = FALSE /\ errorMessage = "" /\ modalAlert = "none"
    /\ modalPending = NoCall /\ modalInFlight = 0 /\ modalClosed = FALSE
    /\ today = FirstDay
    /\ srvIncomes = <<>> /\ homeFocused = FALSE /\ incomes = <<>>
    /\ homeLoading = TRUE /\ calls = EmptyBag
    /\ srvExpenses = <<>>
    /\ cycleLoading = TRUE /\ viewCycle = Null /\ expensesLoading = TRUE
    /\ allExpenses = <<>> /\ recurringExpenses = <<>> /\ totalRecurringExpenses = 0
    /\ loading = TRUE /\ hasMainIncome = TRUE /\ expenses = <<>>
    /\ totalSpent = 0 /\ totalCount = 0 /\ expViewCycle = Null
    /\ fetches = EmptyBag
    /\ last = [screen |-> "none", fn |-> "none", attempt |-> "none", thrown |-> FALSE,
               error |-> ""]
    /\ newestCycle = Unsettled
    /\ budgetRatio = [needs |-> 50, wants |-> 30, savings |-> 20] /\ section = NotRendered
    /\ storedToken = Absent /\ storedUser = Absent /\ user = Absent
    /\ isLoading = TRUE /\ authCalls = SetToBag({AuthCall("checkAuth", "getUser", Absent)})
    /\ loggedOut = FALSE

\* as Init, with the form's income choices anywhere in their declared types
\* (useState<PayCycle>, useState(false)), as handleSubmit may be handed them
FormInit ==
    /\ needs = 50 /\ wants = 30 /\ savings = 20
    /\ regLoading = FALSE /\ regAlert = "none" /\ regPending = NoCall
    /\ regNavigated = FALSE
    /\ modalType = "income"
    /\ name = "" /\ amount = ""
    /\ payCycle \in PayCycles /\ nextPayDate = FirstDay /\ isMain \in BOOLEAN
    /\ expenseType = "one-time" /\ nextPaymentDate = FirstDay
    /\ modalLoading = FALSE /\ errorMessage = "" /\ modalAlert = "none"
    /\ modalPending = NoCall /\ modalInFlight = 0 /\ modalClosed = FALSE
    /\ today = FirstDay
    /\ srvIncomes = <<>> /\ homeFocused = FALSE /\ incomes = <<>>
    /\ homeLoading = TRUE /\ calls = EmptyBag
    /\ srvExpenses = <<>>
    /\ cycleLoading = TRUE /\ viewCycle = Null /\ expensesLoading = TRUE
    /\ allExpenses = <<>> /\ recurringExpenses = <<>> /\ totalRecurringExpenses = 0
    /\ loading = TRUE /\ hasMainIncome = TRUE /\ expenses = <<>>
    /\ totalSpent = 0 /\ totalCount = 0 /\ expViewCycle = Null
    /\ fetches = EmptyBag
    /\ last = [screen |-> "none", fn |-> "none", attempt |-> "none", thrown |-> FALSE,
               error |-> ""]
    /\ newestCycle = NotRecorded
    /\ budgetRatio = [needs |-> 50, wants |-> 30, savings |-> 20] /\ section = NotRendered
    /\ storedToken = Absent /\ storedUser = Absent /\ user = Absent
    /\ isLoading = TRUE /\ authCalls = SetToBag({AuthCall("checkAuth", "getUser", Absent)})
    /\ loggedOut = FALSE

\* HomeScreen with its fetches settled: any total income or no cycle, any
\* budget ratio, any expenses of the cycle; nothing rendered yet
AllocInit ==
    /\ needs = 50 /\ wants = 30 /\ savings = 20
    /\ regLoading = FALSE /\ regAlert = "none" /\ regPending = NoCall
    /\ regNavigated = FALSE
    /\ modalType = "income"
    /\ name = "" /\ amount = ""
    /\ payCycle = "monthly" /\ nextPayDate = FirstDay /\ isMain = FALSE
    /\ expenseType = "one-time" /\ nextPaymentDate = FirstDay
    /\ modalLoading = FALSE /\ errorMessage = "" /\ modalAlert = "none"
    /\ modalPending = NoCall /\ modalInFlight = 0 /\ modalClosed = FALSE
    /\ today = FirstDay
    /\ srvIncomes = <<>> /\ homeFocused = FALSE /\ incomes = <<>>
    /\ homeLoading = TRUE /\ calls = EmptyBag
    /\ srvExpenses = <<>>
    /\ cycleLoading = FALSE /\ expensesLoading = FALSE
    /\ viewCycle \in {Null} \cup {[null |-> FALSE, cycleStart |-> "start",
                                    payCycle |-> "monthly", totalIncome |-> income,
                                    error |-> ""] : income \in TotalIncomes}
    /\ allExpenses \in ExpenseLists(MaxExpenses)
    /\ recurringExpenses = FilterRecurring(allExpenses)
    /\ totalRecurringExpenses = SumAmount(recurringExpenses)
    /\ loading = TRUE /\ hasMainIncome = TRUE /\ expenses = <<>>
    /\ totalSpent = 0 /\ totalCount = 0 /\ expViewCycle = Null
    /\ fetches = EmptyBag
    /\ last = [screen |-> "none", fn |-> "none", attempt |-> "none", thrown |-> FALSE,
               error |-> ""]
    /\ newestCycle = NotRecorded
    /\ budgetRatio \in BudgetRatios /\ section = NotRendered
    /\ storedToken = Absent /\ storedUser = Absent /\ user = Absent
    /\ isLoading = TRUE /\ authCalls = SetToBag({AuthCall("checkAuth", "getUser", Absent)})
    /\ loggedOut = FALSE

SpecRatio == Init /\ [][RegNext]_vars

SpecAdjust == Init /\ [][AdjustNext]_vars

SpecModal == Init /\ [][ModalNext]_vars

SpecSubmit == FormInit /\ [][ModalNext]_vars

SpecHome == Init /\ [][HomeNext]_vars

SpecCycle == Init /\ [][CycleNext]_vars

SpecOrder == OrderInit /\ [][CycleNext]_vars

SpecAlloc == AllocInit /\ [][AllocNext]_vars

SpecAuth == Init /\ [][AuthNext]_vars

(***************************************************************************)
(* Budget ratio: properties                                                *)
(***************************************************************************)
\* round(num / den), a tie going up, in exact integer arithmetic
HalfUp(num, den) == (2 * num + den) \div (2 * den)

\* first is floor(remaining / 2) and second is the rest
EvenSplit(remaining, first, second) ==
    /\ 2 * first <= remaining
    /\ remaining < 2 * first + 2
    /\ second = remaining - first

\* C1: every adjustment by one of the three handlers, with a slider value in
\* [0,100], leaves needs + wants + savings = 100; so the sum is 100 after any
\* sequence of adjustments from 50/30/20.
C1_SumStays100 == needs + wants + savings = 100

\* an adjustment has been made: needs dragged to 70 from 50/30/20
C1_Witness == needs = 70 /\ wants = 18 /\ savings = 12

\* C2: when the two other fields B, C have B + C > 0, adjusting a field to v
\* sets it to v, the first other field to round-half-up((100 - v) * B / (B + C))
\* and the second to the rest; needs to 70 from 50/30/20 gives 70/18/12.
C2_ProportionalHalfUp ==
    /\ NeedsChangeResult(50, 30, 20, 70) = <<70, 18, 12>>
    /\ \A v \in SliderValues :
          /\ wants + savings > 0 =>
                LET first == HalfUp((100 - v) * wants, wants + savings)
                IN  NeedsChangeResult(needs, wants, savings, v)
                      = <<v, first, (100 - v) - first>>
          /\ needs + savings > 0 =>
                LET first == HalfUp((100 - v) * needs, needs + savings)
                IN  WantsChangeResult(needs, wants, savings, v)
                      = <<first, v, (100 - v) - first>>
          /\ needs + wants > 0 =>
                LET first == HalfUp((100 - v) * needs, needs + wants)
                IN  SavingsChangeResult(needs, wants, savings, v)
                      = <<first, (100 - v) - first, v>>

\* C3: when the two other fields sum to zero, adjusting the third to v gives
\* the first other field floor((100 - v) / 2) and the second the rest, the
\* odd point going to the second; with wants = savings = 0, needs to 40
\* gives 40/30/30.
C3_EvenSplitWhenOthersZero ==
    /\ NeedsChangeResult(50, 0, 0, 40) = <<40, 30, 30>>
    /\ \A v \in SliderValues :
          /\ wants + savings = 0 =>
                LET r == NeedsChangeResult(needs, wants, savings, v)
                IN  r[1] = v /\ EvenSplit(100 - v, r[2], r[3]) /\ r[3] >= r[2]
          /\ needs + savings = 0 =>
                LET r == WantsChangeResult(needs, wants, savings, v)
                IN  r[2] = v /\ EvenSplit(100 - v, r[1], r[3]) /\ r[3] >= r[1]
          /\ needs + wants = 0 =>
                LET r == SavingsChangeResult(needs, wants, savings, v)
                IN  r[3] = v /\ EvenSplit(100 - v, r[1], r[2]) /\ r[2] >= r[1]

\* needs dragged to 41 while wants = savings = 0: the odd point is on savings
C3_Witness ==
    /\ needs = 41 /\ wants = 29 /\ savings = 30
    /\ NeedsChangeResult(100, 0, 0, 41) = <<needs, wants, savings>>

\* C4: a register call is made only with a budget ratio that sums to 100,
\* the ratio on the screen when Sign Up was pressed.
C4_RegisterOnlyWhenSum100 ==
    regPending # NoCall =>
        /\ regPending.budgetRatio.needs + regPending.budgetRatio.wants
              + regPending.budgetRatio.savings = 100
        /\ regPending.budgetRatio = [needs |-> needs, wants |-> wants, savings |-> savings]

\* a register call with an adjusted ratio is being awaited
C4_Witness ==
    /\ regPending # NoCall
    /\ regLoading
    /\ regPending.budgetRatio = [needs |-> 70, wants |-> 18, savings |-> 12]

\* C22: after any sequence of adjustments with slider values in [0,100] from
\* 50/30/20, each of needs, wants and savings is an integer in [0,100].
C22_FieldsWithin0And100 ==
    /\ needs \in 0..100
    /\ wants \in 0..100
    /\ savings \in 0..100

\* adjustments have driven one field to each end: savings dragged to 100
C22_Witness == needs = 0 /\ wants = 0 /\ savings = 100

\* C23: from every triple summing to 100, for every field and every value v
\* in [0,100], adjusting the field to v twice in a row gives the triple that
\* adjusting it once gives, and adjusting a field to the value it has leaves
\* the triple as it is.
C23_AdjustmentIdempotent ==
    LET t == <<needs, wants, savings>>
    IN  /\ NeedsChangeResult(needs, wants, savings, needs) = t
        /\ WantsChangeResult(needs, wants, savings, wants) = t
        /\ SavingsChangeResult(needs, wants, savings, savings) = t
        /\ \A v \in SliderValues :
              /\ LET r == NeedsChangeResult(needs, wants, savings, v)
                 IN  NeedsChangeResult(r[1], r[2], r[3], v) = r
              /\ LET r == WantsChangeResult(needs, wants, savings, v)
                 IN  WantsChangeResult(r[1], r[2], r[3], v) = r
              /\ LET r == SavingsChangeResult(needs, wants, savings, v)
                 IN  SavingsChangeResult(r[1], r[2], r[3], v) = r

\* wants dragged to 45 from 50/30/20, and dragging it to 45 again changes
\* nothing
C23_Witness ==
    /\ needs = 39 /\ wants = 45 /\ savings = 16
    /\ WantsChangeResult(50, 30, 20, 45) = <<needs, wants, savings>>
    /\ WantsChangeResult(needs, wants, savings, 45) = <<needs, wants, savings>>

\* the values above 100 a handler is called with
OverValues == (SliderMax + 1)..(SliderMax + MaxOver)

\* C24: a handler called with a value above 100 (remaining < 0) changes none
\* of needs, wants, savings: that is what the handlers compute from every
\* triple, and a step of a handler with such a value leaves the triple.
C24_OverHundredChangesNothing ==
    /\ [](\A v \in OverValues :
            /\ NeedsChangeResult(needs, wants, savings, v) = <<needs, wants, savings>>
            /\ WantsChangeResult(needs, wants, savings, v) = <<needs, wants, savings>>
            /\ SavingsChangeResult(needs, wants, savings, v) = <<needs, wants, savings>>)
    /\ [][(\E v \in OverValues : \/ handleNeedsChange(v)
                                  \/ handleWantsChange(v)
                                  \/ handleSavingsChange(v))
             => UNCHANGED <<needs, wants, savings>>]_vars

\* needs dragged to 100, so that the other two are zero, where a handler
\* called with 101 is enabled and leaves the triple
C24_Witness ==
    /\ needs = 100 /\ wants = 0 /\ savings = 0
    /\ SlidersEnabled
    /\ NeedsChangeResult(needs, wants, savings, 101) = <<100, 0, 0>>
    /\ WantsChangeResult(needs, wants, savings, 101) = <<100, 0, 0>>

(***************************************************************************)
(* Add-Income / Add-Expense form: properties                               *)
(***************************************************************************)
\* every form state handleSubmit can be handed
FormStates ==
    [modalType : {"income", "expense"}, name : NameTexts, amount : AmountTexts,
     payCycle : PayCycles, nextPayDate : Days, isMain : BOOLEAN,
     expenseType : ExpenseTypes, nextPaymentDate : Days]

\* the form holds a one-time income marked as main
OneTimeMainForm == modalType = "income" /\ payCycle = "one-time" /\ isMain

\* the form holds a recurring item whose date is before today
RecurringDatePast ==
    \/ modalType = "income" /\ payCycle # "one-time" /\ nextPayDate < today
    \/ modalType = "expense" /\ expenseType = "recurring" /\ nextPaymentDate < today

\* C7: submitting the form while it holds a one-time income marked as main
\* shows the one-time-cannot-be-main error and makes no createIncome request
C7_OneTimeMainRejected ==
    [][(OneTimeMainForm /\ modalPending = NoCall)
           => /\ modalPending' = NoCall
              /\ (modalAlert = "none" /\ modalAlert' # "none")
                     => modalAlert' = "oneTimeMain"]_vars

C7_Witness ==
    /\ OneTimeMainForm
    /\ modalAlert = "oneTimeMain"
    /\ modalPending = NoCall
    /\ ~modalLoading

\* C8: a createIncome request with payCycle one-time carries isMain = FALSE,
\* for the request awaited and for the data built from any form state
C8_OneTimeRequestNeverMain ==
    /\ (modalPending # NoCall /\ modalPending.kind = "createIncome"
            /\ modalPending.data.payCycle = "one-time")
           => modalPending.data.isMain = FALSE
    /\ \A f \in FormStates :
           f.payCycle = "one-time" => CreateIncomeCall(f).data.isMain = FALSE

C8_Witness ==
    /\ modalPending # NoCall
    /\ modalPending.kind = "createIncome"
    /\ modalPending.data.payCycle = "one-time"
    /\ modalPending.data.isMain = FALSE

\* C10: submitting the form while it holds a recurring income or a recurring
\* expense dated before today shows the past-date error and makes no request
C10_PastRecurringNeverSent ==
    [][(RecurringDatePast /\ modalPending = NoCall)
           => /\ modalPending' = NoCall
              /\ (modalAlert = "none" /\ modalAlert' # "none")
                     => modalAlert' \in {"pastPayDate", "pastPaymentDate"}]_vars

C10_Witness ==
    /\ RecurringDatePast
    /\ modalAlert \in {"pastPayDate", "pastPaymentDate"}
    /\ modalPending = NoCall
    /\ ~modalLoading

\* C11: a create request awaited by the form carries an amount that is a
\* number greater than 0
C11_SentAmountIsPositiveNumber ==
    modalPending # NoCall
        => /\ ~modalPending.data.amount.nan
           /\ modalPending.data.amount.v > 0

\* C25: in the Add-Income form, after any pay-cycle selections and switch
\* toggles, payCycle = 'one-time' never goes with isMain = true: isMain turns
\* true only in a step taken while payCycle is not 'one-time' and leaving it
\* so, and selecting 'one-time' leaves isMain false.
C25_NeverOneTimeMain ==
    /\ [](~(payCycle = "one-time" /\ isMain))
    /\ [][/\ (~isMain /\ isMain') => (payCycle # "one-time" /\ payCycle' # "one-time")
          /\ (payCycle # "one-time" /\ payCycle' = "one-time") => ~isMain']_vars

\* 'one-time' has been selected in the income form, which is still editable
C25_Witness ==
    /\ modalType = "income"
    /\ payCycle = "one-time"
    /\ ~isMain
    /\ FormEditable

\* C28: every execution of handleSubmit ends with loading = false: loading is
\* true only while a create call is awaited, and the step in which the handler
\* ends (a validation alert, the call resolved, the call rejected) leaves
\* loading false.
C28_SubmitEndsNotLoading ==
    /\ [](modalInFlight = 0 => ~modalLoading)
    /\ [][((handleSubmit \/ CreateResolved \/ CreateRejected) /\ modalInFlight' = 0)
             => ~modalLoading']_vars

\* a create request has thrown: the alert is up and the form is not loading
C28_Witness ==
    /\ modalAlert = "failed"
    /\ errorMessage = "failed"
    /\ modalInFlight = 0
    /\ ~modalLoading

SettleStep ==
    /\ fetches' # fetches
    /\ BagCardinality(fetches') <= BagCardinality(fetches)

\* the object the services return for a user without main income
TaggedNoMainIncome(out) ==
    /\ ~out.thrown
    /\ out.cycle.error = "NO_MAIN_INCOME"
    /\ out.cycle.cycleStart = ""
    /\ out.cycle.totalIncome = 0
    /\ out.expenses = <<>>

\* C12: while the user has no main income (no income at all, or none with
\* isMain), what the API answers to view-cycle and current-cycle comes back
\* from getViewCycle and getCurrentCycleExpenses as the value tagged
\* NO_MAIN_INCOME with no cycle start, zero total and no expenses, and every
\* fetch the API answered in that state settles returned and tagged, not thrown
C12_NoMainIncomeReturnedNotThrown ==
    /\ [](MainOf(srvIncomes) = 0
             => /\ TaggedNoMainIncome(getViewCycle(ServerViewCycle(srvIncomes)))
                /\ TaggedNoMainIncome(getCurrentCycleExpenses(
                        ServerCurrentCycle(srvIncomes, srvExpenses))))
    /\ [][(SettleStep /\ MainOf(srvIncomes) = 0 /\ last'.attempt = "reached")
             => (~last'.thrown /\ last'.error = "NO_MAIN_INCOME")]_vars

C12_Witness ==
    /\ MainOf(srvIncomes) = 0
    /\ Len(srvIncomes) > 0
    /\ Len(srvExpenses) > 0
    /\ last.attempt = "reached"
    /\ last.fn = "getViewCycle"
    /\ ~last.thrown
    /\ last.error = "NO_MAIN_INCOME"

\* the step settles a fetch with the value tagged NO_MAIN_INCOME
NoMainIncomeSettles(screen, fn) ==
    /\ SettleStep
    /\ last'.screen = screen
    /\ last'.fn = fn
    /\ ~last'.thrown
    /\ last'.error = "NO_MAIN_INCOME"

\* the screen rests on a NO_MAIN_INCOME result: its fetch settled last, with
\* the tagged value, and it has no fetch in flight
RestsOnNoMainIncome(screen) ==
    /\ last.screen = screen
    /\ ~last.thrown
    /\ last.error = "NO_MAIN_INCOME"
    /\ \A c \in BagToSet(fetches) : c.screen # screen

\* the step puts a fetch of the screen in flight
IssuesAny(screen) ==
    \E c \in BagToSet(fetches') : c.screen = screen /\ CopiesIn(c, fetches') > CopiesIn(c, fetches)

\* the step in which a fetch settles with the NO_MAIN_INCOME value leaves
\* ExpensesScreen not loading, without main income, with no expenses, zero
\* totals and no view cycle, resp. HomeScreen with cycleLoading false and
\* hasMainIncome false, and puts no fetch in flight
SettlesEmpty ==
    /\ NoMainIncomeSettles("expenses", "getCurrentCycleExpenses")
           => /\ ~loading' /\ ~hasMainIncome'
              /\ expenses' = <<>> /\ totalSpent' = 0 /\ totalCount' = 0
              /\ expViewCycle' = Null
              /\ BagCardinality(fetches') = BagCardinality(fetches) - 1
    /\ NoMainIncomeSettles("home", "getViewCycle")
           => /\ ~cycleLoading' /\ ~SummaryHasMainIncome'
              /\ BagCardinality(fetches') = BagCardinality(fetches) - 1

\* C13: a fetch that settles with the NO_MAIN_INCOME value leaves the screen
\* in the empty state, and a screen resting on that result puts a fetch in
\* flight only when it is focused again
C13_NoRequestUntilFocusedAgain ==
    [][/\ SettlesEmpty
       /\ (RestsOnNoMainIncome("expenses") /\ IssuesAny("expenses"))
           => ExpensesFocusEffect
       /\ (RestsOnNoMainIncome("home") /\ IssuesAny("home"))
           => HomeFocusEffect]_vars

\* C13 amended: as C13, but HomeScreen resting on the result also puts a
\* fetch in flight when the user presses Set as main on an income row
C13_NoMainIncomeSettlesEmpty ==
    [][/\ SettlesEmpty
       /\ (RestsOnNoMainIncome("expenses") /\ IssuesAny("expenses"))
           => ExpensesFocusEffect
       /\ (RestsOnNoMainIncome("home") /\ IssuesAny("home"))
           => (HomeFocusEffect \/ \E id \in 1..MaxIncomes : SetAsMainRefresh(id))]_vars

C13_Witness ==
    /\ last.screen = "expenses"
    /\ last.fn = "getCurrentCycleExpenses"
    /\ ~last.thrown
    /\ last.error = "NO_MAIN_INCOME"
    /\ ~loading /\ ~hasMainIncome /\ expViewCycle = Null
    /\ ~cycleLoading /\ ~SummaryHasMainIncome
    /\ Len(srvIncomes) > 0
    /\ fetches = EmptyBag

\* the ways a fetch fails: no token, fetch rejected, unreadable body, a
\* non-OK answer other than no main income
Failures == Attempts \ {"reached"}

C20_TotalsArePlainSums ==
    /\ ~loading
           => /\ totalSpent = SumAmount(expenses)
              /\ totalCount = Len(expenses)
    /\ ~expensesLoading
           => /\ recurringExpenses
                     = SelectSeq(allExpenses,
                                 LAMBDA expense : expense.expenseType = "recurring")
              /\ totalRecurringExpenses = SumAmount(recurringExpenses)

C20_Witness ==
    /\ ~loading
    /\ Len(expenses) = 2
    /\ totalSpent = 12
    /\ totalCount = 2
    /\ ~expensesLoading
    /\ Len(allExpenses) = 2
    /\ Len(recurringExpenses) = 1
    /\ totalRecurringExpenses = 5

\* C27: when HomeScreen's getViewCycle requests overlap, then once all of
\* them have completed the cycle shown is the one the request issued last
\* left: the response of an older request does not overwrite it.
C27_LastIssuedWins ==
    (Pending("home", "getViewCycle") = {} /\ newestCycle.settled)
        => viewCycle = newestCycle.cycle

(***************************************************************************)
(* Budget Allocation: properties                                           *)
(***************************************************************************)
Categories == {"needs", "wants", "savings"}

\* the name of a category's allocation
Title(c) == CASE c = "needs" -> "Needs" [] c = "wants" -> "Wants" [] OTHER -> "Savings"

\* the rendered rows of category c
RowsOf(c) == {i \in 1..Len(section.rows) : section.rows[i].name = Title(c)}

\* the expenses held whose spendFrom is c, in order
SpentFrom(c) == SelectSeq(allExpenses, LAMBDA expense : expense.spendFrom = c)

\* the cycle is resolved: a view cycle without error
CycleResolved == ~viewCycle.null /\ viewCycle.error = ""

\* C15: every rendered allocation of a category has as budget
\* totalIncome * ratio[category] / 100 rounded to the nearest integer, a half
\* going up
C15_BudgetIsRoundedShare ==
    \A c \in Categories : \A i \in RowsOf(c) :
        /\ section.rows[i].percentage = budgetRatio[c]
        /\ section.rows[i].budget = HalfUp(viewCycle.totalIncome * budgetRatio[c], 100)

C15_Witness ==
    /\ section.view = "rows"
    /\ viewCycle.totalIncome = 3
    /\ budgetRatio.needs = 50
    /\ section.rows[1].budget = 2
    /\ section.rows[3].budget = HalfUp(3 * budgetRatio.savings, 100)

\* C16: once the section is rendered for a resolved cycle and a budget ratio
\* summing to 100, it shows exactly three allocations, for needs, wants and
\* savings, whatever the total income, 0 included
C16_AlwaysThreeAllocations ==
    (/\ section.view # "none"
     /\ CycleResolved
     /\ budgetRatio.needs + budgetRatio.wants + budgetRatio.savings = 100)
        => /\ Len(section.rows) = 3
           /\ \A c \in Categories : Cardinality(RowsOf(c)) = 1

\* C17: the spent amount of a category is the sum of amount over the held
\* expenses whose spendFrom is that category, the rendered rows show that
\* amount, and the three amounts add up to the sum over all held expenses
C17_SpentIsSumBySpendFrom ==
    /\ \A c \in Categories :
           /\ spentByCategory(allExpenses)[c] = SumAmount(SpentFrom(c))
           /\ \A i \in RowsOf(c) : section.rows[i].spent = SumAmount(SpentFrom(c))
    /\ spentByCategory(allExpenses).needs + spentByCategory(allExpenses).wants
           + spentByCategory(allExpenses).savings = SumAmount(allExpenses)

C17_Witness ==
    /\ section.view = "rows"
    /\ Len(allExpenses) = 2
    /\ allExpenses[1].spendFrom = "wants" /\ allExpenses[1].expenseType = "one-time"
    /\ allExpenses[2].spendFrom = "needs" /\ allExpenses[2].expenseType = "recurring"
    /\ section.rows[1].spent = 23
    /\ section.rows[2].spent = 23
    /\ section.rows[3].spent = 0

\* C18: the remaining amount of every rendered allocation is budget minus
\* spent, below 0 when spent exceeds budget
C18_RemainingIsBudgetMinusSpent ==
    \A i \in 1..Len(section.rows) :
        /\ section.rows[i].savings = section.rows[i].budget - section.rows[i].spent
        /\ section.rows[i].spent > section.rows[i].budget => section.rows[i].savings < 0

C18_Witness ==
    /\ section.view = "rows"
    /\ section.rows[1].budget = 5
    /\ section.rows[1].spent = 28
    /\ section.rows[1].savings = 0 - 23

\* C19: the progress of every rendered allocation is 0 for budget 0 and
\* otherwise the smaller of 100 and spent / budget * 100 rounded to the
\* nearest integer, a half going up; it lies in 0..100
C19_ProgressIsRoundedPercent ==
    \A i \in 1..Len(section.rows) :
        LET row == section.rows[i]
            percent == HalfUp(100 * row.spent, row.budget)
        IN  /\ row.progress \in 0..100
            /\ row.progress = IF row.budget = 0 THEN 0
                               ELSE IF percent > 100 THEN 100 ELSE percent

\* the distance between two integers
Distance(a, b) == IF a >= b THEN a - b ELSE b - a

\* C26: for a total income and an integer ratio summing to 100, the three
\* rounded budgets add up to the total income or to one more or one less:
\* so for the income and ratio held, and so for the rows rendered.
C26_BudgetsSumWithinOne ==
    budgetRatio.needs + budgetRatio.wants + budgetRatio.savings = 100
        => /\ Distance(AllocationBudget(SummaryIncome, budgetRatio.needs)
                         + AllocationBudget(SummaryIncome, budgetRatio.wants)
                         + AllocationBudget(SummaryIncome, budgetRatio.savings),
                       SummaryIncome) <= 1
           /\ section.view = "rows"
                 => Distance(section.rows[1].budget + section.rows[2].budget
                               + section.rows[3].budget, SummaryIncome) <= 1

\* rows rendered for income 10 and ratio 33/33/34: 3 + 3 + 3, one short
C26_Witness ==
    /\ section.view = "rows"
    /\ viewCycle.totalIncome = 10
    /\ budgetRatio = [needs |-> 33, wants |-> 33, savings |-> 34]
    /\ section.rows[1].budget + section.rows[2].budget + section.rows[3].budget = 9

(***************************************************************************)
(* Main income: properties                                                 *)
(***************************************************************************)
AtMostOneMain(list) ==
    \A i \in 1..Len(list), j \in 1..Len(list) :
        (list[i].isMain /\ list[j].isMain) => i = j

\* id is the one main income of list
OnlyMain(list, id) ==
    /\ id \in 1..Len(list)
    /\ \A j \in 1..Len(list) : list[j].isMain <=> (j = id)

\* the lists a Set-as-main handler got from its refetch after set-main returned
Refetched ==
    {c \in Answered : c.handler = "press" /\ c.fn = "getAllIncomes"
                          /\ c.resp.status = "ok"}

\* this step issues setMainIncome(id)
SetMainRequested(id) ==
    CopiesIn(Call("press", "setMainIncome", id, NoData), calls')
        > CopiesIn(Call("press", "setMainIncome", id, NoData), calls)

C6_RefetchShowsRequestedMain ==
    \A c \in Refetched : OnlyMain(c.resp.list, c.id)

\* C6 amended: the list refetched after setMainIncome(id) returned has exactly
\* one main income; it is id, and every other income is not main, when no
\* other request changed the main income between the set-main and the refetch
C6_RefetchShowsOneMain ==
    \A c \in Refetched :
        /\ MainOf(c.resp.list) # 0
        /\ AtMostOneMain(c.resp.list)
        /\ c.clean => OnlyMain(c.resp.list, c.id)

C6_Witness ==
    \E c \in Refetched :
        /\ c.clean
        /\ OnlyMain(c.resp.list, c.id)
        /\ \E j \in 1..Len(incomes) : j # c.id /\ incomes[j].isMain

\* C9 as stated: setMainIncome is requested only for an income that is
\* neither one-time nor already main
C9_NeverForOneTimeOrMain ==
    [][\A id \in 1..MaxIncomes :
           SetMainRequested(id)
               => /\ srvIncomes[id].payCycle # "one-time"
                  /\ ~srvIncomes[id].isMain]_vars

\* C9 amended: setMainIncome is requested only for an income that the rows
\* on screen show as not main and weekly, biweekly or monthly, and never for
\* a one-time income
C9_OnlyForShownNonMainRecurring ==
    [][\A id \in 1..MaxIncomes :
           SetMainRequested(id)
               => /\ RowsShown
                  /\ id \in 1..Len(incomes)
                  /\ ~incomes[id].isMain
                  /\ incomes[id].payCycle \in {"weekly", "biweekly", "monthly"}
                  /\ srvIncomes[id].payCycle # "one-time"]_vars

C9_Witness ==
    /\ RowsShown
    /\ \E c \in Sent :
           /\ c.fn = "setMainIncome"
           /\ c.id \in 1..Len(incomes)
           /\ ~incomes[c.id].isMain
           /\ incomes[c.id].payCycle = "monthly"
    /\ \E j \in 1..Len(incomes) : incomes[j].payCycle = "one-time"

(***************************************************************************)
(* The session: properties                                                 *)
(***************************************************************************)
\* C30: once logout has completed, the stored token and the stored user
\* data are both absent and the AuthProvider user is null, until the next
\* successful login or register, whatever request started before the logout
\* completes after it
C30_LoggedOutStaysLoggedOut ==
    loggedOut => (storedToken = Absent /\ storedUser = Absent /\ user = Absent)

====
